---- MODULE Spec2Model ----
(***************************************************************************)
(* A model of tai's core: the MemoryState store and its actions            *)
(* (internal/state, internal/agent, internal/ui, internal/llm) and the     *)
(* retry executor of the LM Studio / OpenAI provider.                      *)
(*                                                                         *)
(* Go values are modelled with their memory layout where the layout        *)
(* decides behaviour: an AppState is a struct value whose Context.Messages *)
(* is a slice header (arr, len, cap) into a backing array held in `heap`.  *)
(* Copying an AppState copies the header, never the array.                 *)
(***************************************************************************)
EXTENDS Integers, Sequences, FiniteSets, TLC

(***************************************************************************)
(* Bounds of the model.                                                    *)
(***************************************************************************)
\* total number of Dispatch calls in one behaviour of the store
MaxDispatch == 2
\* the wall clock read by time.Now() runs from 1 to MaxClock
MaxClock == 2
\* largest configured MaxRetries the retry executor is run with
MaxR == 4
\* writes a client makes through a state it got from GetState
MaxMutations == 1

\* the attempt count retryRequest uses when none is configured
DefaultMaxRetries == 3

\* goroutines that call Dispatch concurrently
Tasks == {"t1", "t2"}
\* handlers that may be registered with OnStateChange, in this order
Handlers == <<"h1", "h2">>
NoTask == "none"

(***************************************************************************)
(* internal/state/interfaces.go: Role, Message, AppState                   *)
(***************************************************************************)
RoleUser == "user"
RoleAssistant == "assistant"
Roles == {RoleUser, RoleAssistant}

\* a message content is a string, modelled as a sequence of tokens

\* the zero value of state.Message (time.Time{} is instant 0)
ZeroMsg == [role |-> "", content |-> <<>>, ts |-> 0]

Message(r, c, t) == [role |-> r, content |-> c, ts |-> t]

\* the nil slice
NilSlice == [arr |-> 0, len |-> 0, cap |-> 0]

\* The elements a slice header denotes in a heap.
Deref(h, sl) == IF sl.len = 0 THEN <<>> ELSE SubSeq(h[sl.arr], 1, sl.len)

\* What a holder of the AppState value s sees when it reads it in heap h
\* (Context.Updated left out).
View(h, s) ==
    [msgs |-> Deref(h, s.msgs), busy |-> s.busy,
     provider |-> s.provider, name |-> s.name]

Zeros(n) == [i \in 1..n |-> ZeroMsg]

\* runtime.growslice for append of one element to a full slice of small
\* capacity: the capacity doubles (1 for an empty slice).
GrowCap(cap) == IF cap = 0 THEN 1 ELSE 2 * cap

\* Go's append(sl, m): in place when len < cap, else into a fresh array.
\* Gives the new heap and the new slice header.
GoAppend(h, sl, m) ==
    IF sl.len < sl.cap
    THEN [heap |-> [h EXCEPT ![sl.arr][sl.len + 1] = m],
          slice |-> [sl EXCEPT !.len = sl.len + 1]]
    ELSE LET ncap == GrowCap(sl.cap)
             narr == Deref(h, sl) \o <<m>> \o Zeros(ncap - sl.len - 1)
         IN [heap |-> Append(h, narr),
             slice |-> [arr |-> Len(h) + 1, len |-> sl.len + 1, cap |-> ncap]]

(***************************************************************************)
(* The actions: every Execute takes the AppState BY VALUE (s), so its      *)
(* assignments to s's fields are local, but writes through s.msgs reach    *)
(* the shared backing array.  Execute(a, s, h, t) gives the returned       *)
(* state, the heap after the call and whether an error was returned;       *)
(* t is what time.Now() returns during the call.                           *)
(***************************************************************************)
Action(ty, r, c, ts, ok, pv, nm) ==
    [type |-> ty, role |-> r, content |-> c, ts |-> ts, success |-> ok,
     provider |-> pv, name |-> nm]

StartedAction(r, c) == Action("Started", r, c, 0, TRUE, "", "")
ChunkAction(r, c, ts) == Action("Chunk", r, c, ts, TRUE, "", "")
CompletedAction(ok) == Action("Completed", "", <<>>, 0, ok, "", "")
TerminateAction == Action("Terminate", "", <<>>, 0, TRUE, "", "")
ChangeProviderAction(pv, nm) == Action("ChangeProvider", "", <<>>, 0, TRUE, pv, nm)
ClearAction == Action("Clear", "", <<>>, 0, TRUE, "", "")
\* the tests' mockAction whose execFunc returns (state, errors.New(...))
FailingAction == Action("Mock", "", <<>>, 0, FALSE, "", "")

Result(s, h, e) == [state |-> s, heap |-> h, err |-> e]

\* the turn's message is not appended
ExecStarted_BusyOnly(a, s, h, t) == Result([s EXCEPT !.busy = TRUE], h, FALSE)

\* ChatCompletionStartedAction.Execute
ExecStarted(a, s, h, t) ==
    LET r == GoAppend(h, s.msgs, Message(a.role, a.content, t))
    IN Result([s EXCEPT !.busy = TRUE, !.msgs = r.slice], r.heap, FALSE)

\* Busy is left as it was
ExecCompleted_KeepsBusy(a, s, h, t) == Result(s, h, FALSE)

\* ChatCompletionCompletedAction.Execute
ExecCompleted(a, s, h, t) == Result([s EXCEPT !.busy = FALSE], h, FALSE)

\* The indexes, in range order, of the messages a chunk matches.
Matches(a, msgs) ==
    {i \in 1..Len(msgs) : msgs[i].role = a.role /\ msgs[i].ts = a.ts}

Min(S) == CHOOSE x \in S : \A y \in S : x <= y

\* the message the range loop of MessageChunkAction.Execute stops at
ChunkTarget(a, msgs) == Min(Matches(a, msgs))

\* the chunk's content replaces the message's
Accumulate_Overwrites(prior, delta) == delta

\* a.Content = msg.Content + a.Content
Accumulate(prior, delta) == prior \o delta

\* MessageChunkAction.Execute: on a match at idx,
\* append(s.Context.Messages[:idx], a.Message) writes a.Message over element
\* idx of the caller's array and gives a slice that ends there.
ExecChunk(a, s, h, t) ==
    LET msgs == Deref(h, s.msgs)
    IN IF Matches(a, msgs) # {}
       THEN LET idx == ChunkTarget(a, msgs)
                m == Message(a.role, Accumulate(msgs[idx].content, a.content), a.ts)
                r == GoAppend(h, [s.msgs EXCEPT !.len = idx - 1], m)
            IN Result([s EXCEPT !.msgs = r.slice, !.updated = t], r.heap, FALSE)
       ELSE LET r == GoAppend(h, s.msgs, Message(a.role, a.content, a.ts))
            IN Result([s EXCEPT !.msgs = r.slice], r.heap, FALSE)

\* TerminateAgentAction.Execute
ExecTerminate(a, s, h, t) == Result(s, h, FALSE)

\* ChangeProviderSettingsAction.Execute
ExecChangeProvider(a, s, h, t) ==
    Result([s EXCEPT !.provider = IF a.provider # "" THEN a.provider ELSE @,
                     !.name = IF a.name # "" THEN a.name ELSE @], h, FALSE)

\* ClearMessagesAction.Execute
ExecClear(a, s, h, t) ==
    Result([s EXCEPT !.msgs = NilSlice, !.busy = FALSE, !.updated = t], h, FALSE)

\* mockAction.Execute with an execFunc that fails
ExecMock(a, s, h, t) == Result(s, h, TRUE)

\* Action.Execute, by dynamic type
Execute(a, s, h, t) ==
    CASE a.type = "Started" -> ExecStarted(a, s, h, t)
      [] a.type = "Completed" -> ExecCompleted(a, s, h, t)
      [] a.type = "Chunk" -> ExecChunk(a, s, h, t)
      [] a.type = "Terminate" -> ExecTerminate(a, s, h, t)
      [] a.type = "ChangeProvider" -> ExecChangeProvider(a, s, h, t)
      [] a.type = "Clear" -> ExecClear(a, s, h, t)
      [] OTHER -> ExecMock(a, s, h, t)

(***************************************************************************)
(* State.                                                                  *)
(***************************************************************************)
VARIABLES
    heap,       \* the backing arrays of all message slices, by address
    mstate,     \* MemoryState.state
    mu,         \* MemoryState.mu: the task holding the write lock, or NoTask
    listeners,  \* MemoryState.listeners
    task,       \* per dispatching goroutine: where it is in Dispatch, its locals
    now,        \* the wall clock
    ndisp,      \* Dispatch calls made so far
    gor,        \* the handler goroutines started by `go listener(...)`
    applied,    \* the actions whose result was stored, in the order of the stores
    npanic,     \* Dispatch calls that panicked
    snap,       \* the AppState a client got from its last GetState
    nmut        \* writes the client made through its snapshot

storeVars == <<heap, mstate, mu, listeners, task, now, ndisp, gor, applied,
               npanic, snap, nmut>>

\* one call of retryRequest(ctx, fn)
VARIABLES
    rcfg,       \* p.config.MaxRetries
    rpc,        \* where the call is: "start", "attempt", "backoff", "done"
    rmax,       \* the local maxRetries
    ri,         \* the loop index i
    rlast,      \* the local lastErr
    rlog,       \* what each call of fn returned, in order
    rctx,       \* ctx.Err(): NilErr until the token is signaled
    rwait,      \* time left until time.After(backoff) fires
    rwaited,    \* time spent in backoff waits so far
    rret        \* the error retryRequest returned

retryVars == <<rcfg, rpc, rmax, ri, rlast, rlog, rctx, rwait, rwaited, rret>>

\* one call of StreamChatCompletion(ctx, req), its decode goroutine and the
\* consumer of the channel it returned
VARIABLES
    sframes,    \* the responses the stream holds, in order
    stail,      \* what ends the stream: "eof" or "err" (a read error)
    spc,        \* the caller: "start", "returned"
    sret,       \* what StreamChatCompletion returned: the channel or nil, err
    nopen,      \* calls of CreateChatCompletionStream
    ncancel,    \* calls of cancel(), which releases the timeout scope
    dpc,        \* the decode goroutine: "none", "recv", "sendChunk",
                \* "sendDone", "sendErr", "exit", "unscope", "closing", "closed"
    sread,      \* responses stream.Recv() has returned
    pending,    \* the chunk the goroutine is sending on chunkChan
    recvd,      \* the chunks the consumer received, in order
    sctx,       \* ctx.Err() of the stream's token: NilErr until signaled
    scancelAt,  \* chunks the consumer had received when the token was signaled
    stopped,    \* the consumer receives no more
    nrelease,   \* calls of stream.Close()
    nclose,     \* calls of close(chunkChan)
    sexit       \* the way the goroutine left its loop: "eof", "error", "cancel"

streamVars == <<sframes, stail, spc, sret, nopen, ncancel, dpc, sread, pending,
                recvd, sctx, scancelAt, stopped, nrelease, nclose, sexit>>

\* a run of MessageChunkAction.Execute over one state
VARIABLES
    cinit,      \* the messages of the state before the first chunk
    ckey,       \* the role and the timestamp the chunks carry
    clog        \* the deltas of the chunks applied so far, in order

chunkVars == <<cinit, ckey, clog>>

\* the orchestrator: agentImpl, its Start goroutine, one consumer goroutine
\* per turn, the goroutines of its onStateChange handler, and the receiver of
\* its output channel
VARIABLES
    ain,        \* inbound messages taken from the input channel: the turns
    apc,        \* the Start goroutine: "wait" (in its select), "status" and
                \* "open" (inside messageHandler), "exited"
    aturn,      \* per turn: the consumer goroutine and the stream it reads
    actx,       \* ctx.Err() of the orchestrator's token
    aout,       \* a.output: the statuses received from it, the calls of close
    apend,      \* the onStateChange goroutines started and not yet run: those
                \* of each turn's Completed actions, those of Terminate actions
    alog,       \* per turn, the actions dispatched for it, in order
    aterm,      \* TerminateAgent actions dispatched
    acrash      \* the panic that ended the process, or "none"

agentVars == <<ain, apc, aturn, actx, aout, apend, alog, aterm, acrash>>

\* one call of convertToOpenAIRequest, one of NewMemoryState, one of
\* GetProvider
VARIABLES
    qreq,       \* the ChatRequest and the stream flag given to the conversion
    qwire,      \* the openai.ChatCompletionRequest it returned, if it returned
    nargs,      \* the arguments of NewMemoryState, time.Now() and os.Getwd()
    nstore,     \* the MemoryState it returned, if it returned
    gargs,      \* the arguments of a call that gets a provider, and what the
                \* provider's constructor will return
    gret        \* what GetProvider returned, if it returned

buildVars == <<qreq, qwire, nargs, nstore, gargs, gret>>

\* what a step of the store, of the retry executor, of a stream, of a run of
\* chunks, of the orchestrator and of the two constructions leaves alone
notStore == <<retryVars, streamVars, chunkVars, agentVars, buildVars>>
notRetry == <<storeVars, streamVars, chunkVars, agentVars, buildVars>>
notStream == <<storeVars, retryVars, chunkVars, agentVars, buildVars>>
notChunk == <<listeners, mu, task, now, ndisp, gor, applied, npanic, snap,
              nmut, retryVars, streamVars, agentVars, buildVars>>
notAgent == <<listeners, mu, task, ndisp, gor, applied, npanic, snap, nmut,
              retryVars, streamVars, chunkVars, buildVars>>
notBuild == <<storeVars, retryVars, streamVars, chunkVars, agentVars>>

\* NewMemoryState: no messages, the zero Model, Created = Updated = now
InitState ==
    [msgs |-> NilSlice, busy |-> FALSE, provider |-> "", name |-> "",
     updated |-> 1]

IdleTask == [pc |-> "idle", action |-> TerminateAction, old |-> InitState,
             new |-> InitState, at |-> 0]

StoreInit ==
    /\ heap = <<>>
    /\ mstate = InitState
    /\ mu = NoTask
    /\ listeners = <<>>
    /\ task = [t \in Tasks |-> IdleTask]
    /\ now = 1
    /\ ndisp = 0
    /\ gor = <<>>
    /\ applied = <<>>
    /\ npanic = 0
    /\ snap = InitState
    /\ nmut = 0

\* The actions the k-th Dispatch call of the concurrent callers may carry at
\* clock value t.  Contents never decide a branch, so each call carries a
\* content of its own: <<k>>.
ActionInputs(k, t) ==
    {StartedAction(RoleUser, <<k>>), CompletedAction(TRUE), ClearAction,
     FailingAction}
    \cup {ChunkAction(RoleAssistant, <<k>>, ts) : ts \in 1..t}

\* Every action type, as the single caller of SpecClient dispatches them.
AllActionInputs(k, t) ==
    ActionInputs(k, t)
    \cup {TerminateAction, ChangeProviderAction("lmstudio", ""),
          ChangeProviderAction("", "gemma")}
    \cup {ChunkAction(RoleUser, <<k>>, ts) : ts \in 1..t}

\* Dispatch without the mutex
CanLock_NoMutex == TRUE

\* sync.RWMutex: Lock() returns only when no writer holds the lock (readers
\* hold it only inside the atomic GetState step)
CanLock == mu = NoTask

\* time passes
Tick ==
    /\ now < MaxClock
    /\ now' = now + 1
    /\ UNCHANGED <<heap, mstate, mu, listeners, task, ndisp, gor, applied,
                   npanic, snap, nmut>>
    /\ UNCHANGED notStore

\* MemoryState.OnStateChange: Lock, append, Unlock
OnStateChange ==
    /\ CanLock
    /\ Len(listeners) < Len(Handlers)
    /\ listeners' = Append(listeners, Handlers[Len(listeners) + 1])
    /\ UNCHANGED <<heap, mstate, mu, task, now, ndisp, gor, applied, npanic,
                   snap, nmut>>
    /\ UNCHANGED notStore

\* Unlock called at the end of Dispatch instead of deferred: a panic skips it
UnlockOnPanic_NotDeferred(t) == t

\* the lock after Dispatch panicked: the deferred m.mu.Unlock() has run
UnlockOnPanic(t) == NoTask

\* Dispatch, first half: m.mu.Lock(); oldState := m.state;
\* newState, err := action.Execute(m.state); on an error panic, which runs
\* the deferred Unlock and unwinds the caller.
DispatchExecute(t, a) ==
    /\ task[t].pc = "idle"
    /\ ndisp < MaxDispatch
    /\ CanLock
    /\ ndisp' = ndisp + 1
    /\ LET r == Execute(a, mstate, heap, now)
       IN IF r.err
          THEN /\ mu' = UnlockOnPanic(t)
               /\ npanic' = npanic + 1
               /\ UNCHANGED <<heap, task>>
          ELSE /\ mu' = t
               /\ heap' = r.heap
               /\ task' = [task EXCEPT ![t] = [pc |-> "executed", action |-> a,
                                               old |-> mstate, new |-> r.state,
                                               at |-> now]]
               /\ UNCHANGED npanic
    /\ UNCHANGED <<mstate, listeners, now, gor, applied, snap, nmut>>
    /\ UNCHANGED notStore

\* a handler goroutine as started: its arguments, and that it has not run
Goroutine(h, n, a, new, old) ==
    [h |-> h, n |-> n, action |-> a, new |-> new, old |-> old, done |-> FALSE,
     newView |-> View(<<>>, InitState), oldView |-> View(<<>>, InitState)]

\* the notification loop with an off-by-one: the first listener is skipped
Notify_SkipsFirst(ls, n, a, new, old) ==
    [i \in 1..(Len(ls) - 1) |-> Goroutine(ls[i + 1], n, a, new, old)]

\* the goroutines `for _, listener := range m.listeners { go listener(...) }`
\* starts for dispatch number n
Notify(ls, n, a, new, old) ==
    [i \in 1..Len(ls) |-> Goroutine(ls[i], n, a, new, old)]

\* Dispatch calls the listeners itself: it goes on when they have returned
NotifyReturns_WhenHandlersDone(gs) == \A i \in DOMAIN gs : gs[i].done

\* `go listener(action, newState, oldState)`: the loop and Dispatch go on
\* whatever the goroutines started so far are doing
NotifyReturns(gs) == TRUE

\* Dispatch, second half: stamp Updated, store the new state, start the
\* handlers, return (the deferred Unlock)
DispatchCommit(t) ==
    /\ task[t].pc = "executed"
    /\ NotifyReturns(gor)
    /\ LET new == [task[t].new EXCEPT !.updated = now]
       IN /\ mstate' = new
          /\ gor' = gor \o Notify(listeners, Len(applied) + 1, task[t].action,
                                  new, task[t].old)
    /\ applied' = Append(applied, [action |-> task[t].action, at |-> task[t].at,
                                    ls |-> listeners])
    /\ mu' = NoTask
    /\ task' = [task EXCEPT ![t] = IdleTask]
    /\ UNCHANGED <<heap, listeners, now, ndisp, npanic, snap, nmut>>
    /\ UNCHANGED notStore

\* A handler goroutine runs: it reads both states it was given.
HandlerRun(i) ==
    /\ i \in 1..Len(gor)
    /\ ~gor[i].done
    /\ gor' = [gor EXCEPT ![i].done = TRUE,
                          ![i].newView = View(heap, gor[i].new),
                          ![i].oldView = View(heap, gor[i].old)]
    /\ UNCHANGED <<heap, mstate, mu, listeners, task, now, ndisp, applied,
                   npanic, snap, nmut>>
    /\ UNCHANGED notStore

\* a handler that has not returned calls GetState on the store: RLock,
\* return m.state, RUnlock
HandlerGetState(i) ==
    /\ i \in 1..Len(gor)
    /\ ~gor[i].done
    /\ mu = NoTask
    /\ snap # mstate
    /\ snap' = mstate
    /\ UNCHANGED <<heap, mstate, mu, listeners, task, now, ndisp, gor, applied,
                   npanic, nmut>>
    /\ UNCHANGED notStore

\* a handler that has not returned calls Dispatch on the store; the calls of
\* handlers are those of the task "t2"
HandlerDispatch(i, a) ==
    /\ i \in 1..Len(gor)
    /\ ~gor[i].done
    /\ DispatchExecute("t2", a)

\* the actions a caller and a handler dispatch
HandlerInputs(k) ==
    {StartedAction(RoleUser, <<k>>), ChunkAction(RoleAssistant, <<k>>, 1),
     CompletedAction(TRUE)}

\* The store with handlers that call it back.  A handler runs to its end or
\* never ends; before that it may call GetState and Dispatch.
HandlersNext ==
    \/ OnStateChange
    \/ \E a \in HandlerInputs(ndisp + 1) : DispatchExecute("t1", a)
    \/ \E t \in Tasks : DispatchCommit(t)
    \/ \E i \in 1..(MaxDispatch * Len(Handlers)) : HandlerRun(i)
    \/ \E i \in 1..(MaxDispatch * Len(Handlers)) : HandlerGetState(i)
    \/ \E i \in 1..(MaxDispatch * Len(Handlers)) :
          \E a \in HandlerInputs(ndisp + 1) : HandlerDispatch(i, a)

StoreNext ==
    \/ Tick
    \/ OnStateChange
    \/ \E t \in Tasks : \E a \in ActionInputs(ndisp + 1, now) : DispatchExecute(t, a)
    \/ \E t \in Tasks : DispatchCommit(t)
    \/ \E i \in 1..(MaxDispatch * Len(Handlers)) : HandlerRun(i)

(***************************************************************************)
(* The retry executor: LMStudioProvider.retryRequest (the OpenAI provider's *)
(* is the same code).  An error is its Error() text, a sequence of tokens, *)
(* the attempt count an aggregate error names and the text of the error it *)
(* wraps.                                                                  *)
(***************************************************************************)
Err(msg, n, cause) == [msg |-> msg, retries |-> n, cause |-> cause]
NilErr == Err(<<>>, 0, <<>>)

\* context.Canceled and context.DeadlineExceeded
CtxCanceled == Err(<<"context canceled">>, 0, <<>>)
CtxDeadline == Err(<<"context deadline exceeded">>, 0, <<>>)

\* what fn may return: nil, or an error of the service
Err500 == Err(<<"error, status code: 500">>, 0, <<>>)
Err429 == Err(<<"error, status code: 429">>, 0, <<>>)
ErrApiKey == Err(<<"error, status code: 401", "invalid_api_key">>, 0, <<>>)
ErrNoModel == Err(<<"error, status code: 404", "model_not_found">>, 0, <<>>)
FnOutcomes == {NilErr, Err500, Err429, ErrApiKey, ErrNoModel}

\* strings.Contains(err.Error(), marker)
Contains(e, marker) == \E k \in DOMAIN e.msg : e.msg[k] = marker

\* every error is retried, the markers are not looked at
NonRetryable_None(e) == FALSE

\* the `Don't retry on certain errors` test
NonRetryable(e) == Contains(e, "invalid_api_key") \/ Contains(e, "model_not_found")

\* a maximum that is not positive gives one attempt
EffectiveMaxRetries_NoDefault(cfg) == IF cfg <= 0 THEN 1 ELSE cfg

\* maxRetries := p.config.MaxRetries; if maxRetries <= 0 { maxRetries = 3 }
EffectiveMaxRetries(cfg) == IF cfg <= 0 THEN DefaultMaxRetries ELSE cfg

\* every backoff lasts one second
Backoff_Constant(i) == 1

\* time.Duration(1<<uint(i)) * time.Second, in seconds
Backoff(i) == 2 ^ i

\* fmt.Errorf("request failed after %d retries: %w", maxRetries, lastErr)
Exhausted(n, last) == Err(<<"request failed after", "retries">>, n, last.msg)

\* a nil error is not told from a failure
Succeeded_Never(e) == FALSE

\* `if err := fn(); err != nil { ... } else { return nil }`
Succeeded(e) == e = NilErr

\* the `ctx.Err() != nil` test after a failure is missing
Cancelled_Never(ctxErr) == FALSE

\* `if ctx.Err() != nil { return ctx.Err() }`
Cancelled(ctxErr) == ctxErr # NilErr

\* the loop runs once more: `i <= maxRetries`
MoreAttempts_OneMore(j, max) == j <= max

\* the loop test `i < maxRetries`
MoreAttempts(j, max) == j < max

\* the select of the backoff has no `case <-ctx.Done()`
WaitAborted_Never(ctxErr) == FALSE

\* `case <-ctx.Done(): return ctx.Err()` of the backoff's select: the wait
\* ends at the first of the timer and the token's signal
WaitAborted(ctxErr) == ctxErr # NilErr

RetryRest ==
    /\ rcfg = 0
    /\ rpc = "done"
    /\ rmax = 0
    /\ ri = 0
    /\ rlast = NilErr
    /\ rlog = <<>>
    /\ rctx = NilErr
    /\ rwait = 0
    /\ rwaited = 0
    /\ rret = NilErr

\* retryRequest is about to be called on a provider configured with any
\* MaxRetries from -1 to MaxR; the token may be signaled already.
RetryInit ==
    /\ rcfg \in -1..MaxR
    /\ rpc = "start"
    /\ rmax = 0
    /\ ri = 0
    /\ rlast = NilErr
    /\ rlog = <<>>
    /\ rctx \in {NilErr, CtxCanceled}
    /\ rwait = 0
    /\ rwaited = 0
    /\ rret = NilErr

\* the loop test `i < maxRetries` with i already advanced to j: the next
\* attempt, or the return after the loop
LoopOrReturn(j, max, last) ==
    IF MoreAttempts(j, max)
    THEN /\ rpc' = "attempt"
         /\ rret' = NilErr
    ELSE /\ rpc' = "done"
         /\ rret' = Exhausted(max, last)

\* the caller's token is signaled (cancel, or the timeout of the request)
RetryCancel(e) ==
    /\ rpc \in {"attempt", "backoff"}
    /\ rctx = NilErr
    /\ rctx' = e
    /\ UNCHANGED <<rcfg, rpc, rmax, ri, rlast, rlog, rwait, rwaited, rret>>
    /\ UNCHANGED notRetry

\* retryRequest is entered: maxRetries is set, the loop starts at i = 0
RetryStart ==
    /\ rpc = "start"
    /\ rmax' = EffectiveMaxRetries(rcfg)
    /\ ri' = 0
    /\ LoopOrReturn(0, EffectiveMaxRetries(rcfg), NilErr)
    /\ UNCHANGED <<rcfg, rlast, rlog, rctx, rwait, rwaited>>
    /\ UNCHANGED notRetry

\* One pass of the loop body up to the backoff: fn() returns e.
RetryAttempt(e) ==
    /\ rpc = "attempt"
    /\ rlog' = Append(rlog, e)
    /\ IF Succeeded(e)
       THEN /\ rpc' = "done"
            /\ rret' = NilErr
            /\ UNCHANGED <<ri, rlast, rwait>>
       ELSE /\ rlast' = e
            /\ IF Cancelled(rctx)
               THEN /\ rpc' = "done"
                    /\ rret' = rctx
                    /\ UNCHANGED <<ri, rwait>>
               ELSE IF NonRetryable(e)
               THEN /\ rpc' = "done"
                    /\ rret' = e
                    /\ UNCHANGED <<ri, rwait>>
               ELSE IF ri < rmax - 1
               THEN /\ rpc' = "backoff"
                    /\ rwait' = Backoff(ri)
                    /\ UNCHANGED <<ri, rret>>
               ELSE /\ ri' = ri + 1
                    /\ LoopOrReturn(ri + 1, rmax, e)
                    /\ UNCHANGED rwait
    /\ UNCHANGED <<rcfg, rmax, rctx, rwaited>>
    /\ UNCHANGED notRetry

\* A second passes while retryRequest waits in the select.  A signaled
\* token wakes the select up before the timer does: no second passes between
\* the signal and the wake-up.
RetryTick ==
    /\ rpc = "backoff"
    /\ rwait > 0
    /\ ~WaitAborted(rctx)
    /\ rwait' = rwait - 1
    /\ rwaited' = rwaited + 1
    /\ UNCHANGED <<rcfg, rpc, rmax, ri, rlast, rlog, rctx, rret>>
    /\ UNCHANGED notRetry

\* select: case <-time.After(backoff): the next pass of the loop
RetryTimerFires ==
    /\ rpc = "backoff"
    /\ rwait = 0
    /\ ri' = ri + 1
    /\ LoopOrReturn(ri + 1, rmax, rlast)
    /\ UNCHANGED <<rcfg, rmax, rlast, rlog, rctx, rwait, rwaited>>
    /\ UNCHANGED notRetry

\* select: case <-ctx.Done(): return ctx.Err()
RetryCtxDone ==
    /\ rpc = "backoff"
    /\ WaitAborted(rctx)
    /\ rpc' = "done"
    /\ rret' = rctx
    /\ UNCHANGED <<rcfg, rmax, ri, rlast, rlog, rctx, rwait, rwaited>>
    /\ UNCHANGED notRetry

RetryNext ==
    \/ RetryStart
    \/ \E e \in FnOutcomes : RetryAttempt(e)
    \/ RetryTick
    \/ RetryTimerFires
    \/ RetryCtxDone
    \/ \E e \in {CtxCanceled, CtxDeadline} : RetryCancel(e)

(***************************************************************************)
(* Streaming: LMStudioProvider.StreamChatCompletion.  A response of the    *)
(* stream either has choices, and then a delta, or has none; a chunk is    *)
(* the ChatStreamChunk the consumer gets.                                  *)
(***************************************************************************)
\* longest stream, in responses before its end
MaxFrames == 3

Frame(choices, delta) == [choices |-> choices, delta |-> delta]

\* the k-th response of a stream: its delta is <<k>>, no two are alike
FrameAt(k, choices) == Frame(choices, IF choices THEN <<k>> ELSE <<>>)

\* the streams of n responses
Streams(n) ==
    {f \in [1..n -> [choices : BOOLEAN,
                      delta : {<<>>} \cup {<<k>> : k \in 1..n}]] :
        \A k \in 1..n : f[k] = FrameAt(k, f[k].choices)}

Chunk(delta, done, err) == [delta |-> delta, done |-> done, err |-> err]
NoChunk == Chunk(<<>>, FALSE, NilErr)

\* fmt.Errorf(prefix + ": %w", e)
Wrap(prefix, e) == Err(<<prefix>> \o e.msg, 0, e.msg)

\* errors of the connection
ErrConnRefused == Err(<<"connection refused">>, 0, <<>>)
ErrUnexpectedEOF == Err(<<"unexpected EOF">>, 0, <<>>)
OpenOutcomes == {NilErr, ErrConnRefused, Err500}

\* the delta of the response is dropped
ToChunk_NoDelta(f) == Chunk(<<>>, FALSE, NilErr)

\* ChatStreamChunk{Delta: response.Choices[0].Delta.Content, Done: false}
ToChunk(f) == Chunk(f.delta, FALSE, NilErr)

\* ChatStreamChunk{Done: true}
DoneChunk == Chunk(<<>>, TRUE, NilErr)

\* ChatStreamChunk{Error: fmt.Errorf("stream error: %w", err), Done: true}
ErrorChunk(e) == Chunk(<<>>, TRUE, Wrap("stream error", e))

\* the loop goes on after every send
AfterSend_Loops(pc) == "recv"

\* after a send: the next pass of the loop after a content chunk, `return`
\* after the Done chunk and after the error chunk
AfterSend(pc) == IF pc = "sendChunk" THEN "recv" ELSE "exit"

\* cancel() is not called when the stream could not be opened
CancelsOnOpenFailure_Leaks(n) == n

\* `if err != nil { cancel(); return nil, ... }`
CancelsOnOpenFailure(n) == n + 1

\* stream.Close() is skipped when the loop was left through ctx.Done()
ReleasesOnExit_NotOnCancel(path) == path # "cancel"

\* `defer stream.Close()`: runs however the goroutine returns
ReleasesOnExit(path) == TRUE

\* the sends that are in a select with `case <-ctx.Done()`
SendRaced(pc) == pc = "sendChunk"

StreamRest ==
    /\ sframes = <<>>
    /\ stail = "eof"
    /\ spc = "returned"
    /\ sret = [chan |-> FALSE, err |-> NilErr]
    /\ nopen = 0
    /\ ncancel = 0
    /\ dpc = "none"
    /\ sread = 0
    /\ pending = NoChunk
    /\ recvd = <<>>
    /\ sctx = NilErr
    /\ scancelAt = 0
    /\ stopped = FALSE
    /\ nrelease = 0
    /\ nclose = 0
    /\ sexit = "none"

\* StreamChatCompletion is about to be called; the service will answer with
\* any stream of up to MaxFrames responses that ends with [DONE] or breaks.
StreamInit ==
    /\ \E n \in 0..MaxFrames : sframes \in Streams(n)
    /\ stail \in {"eof", "err"}
    /\ spc = "start"
    /\ sret = [chan |-> FALSE, err |-> NilErr]
    /\ nopen = 0
    /\ ncancel = 0
    /\ dpc = "none"
    /\ sread = 0
    /\ pending = NoChunk
    /\ recvd = <<>>
    /\ sctx = NilErr
    /\ scancelAt = 0
    /\ stopped = FALSE
    /\ nrelease = 0
    /\ nclose = 0
    /\ sexit = "none"

\* StreamChatCompletion up to its return: the timeout scope is made, the
\* stream is opened once; on an error cancel() and (nil, wrapped error), else
\* the channel is made, the goroutine started and the channel returned.
StreamOpen(e) ==
    /\ spc = "start"
    /\ spc' = "returned"
    /\ nopen' = nopen + 1
    /\ IF e # NilErr
       THEN /\ ncancel' = CancelsOnOpenFailure(ncancel)
            /\ sret' = [chan |-> FALSE, err |-> Wrap("stream creation failed", e)]
            /\ dpc' = dpc
       ELSE /\ ncancel' = ncancel
            /\ sret' = [chan |-> TRUE, err |-> NilErr]
            /\ dpc' = "recv"
    /\ UNCHANGED <<sframes, stail, sread, pending, recvd, sctx, scancelAt,
                   stopped, nrelease, nclose, sexit>>
    /\ UNCHANGED notStream

\* what stream.Recv() may return now: the next response or the end of the
\* stream; once the token is signaled, also the token's error
RecvOutcomes ==
    (IF sread < Len(sframes) THEN {"frame"} ELSE {stail})
    \cup (IF sctx # NilErr THEN {"ctx"} ELSE {})

\* One pass of the loop up to its send: stream.Recv() returns out.
StreamRecv(out) ==
    /\ dpc = "recv"
    /\ out \in RecvOutcomes
    /\ CASE out = "eof" ->
              /\ dpc' = "sendDone"
              /\ pending' = DoneChunk
              /\ sread' = sread
         [] out = "err" ->
              /\ dpc' = "sendErr"
              /\ pending' = ErrorChunk(ErrUnexpectedEOF)
              /\ sread' = sread
         [] out = "ctx" ->
              /\ dpc' = "sendErr"
              /\ pending' = ErrorChunk(sctx)
              /\ sread' = sread
         [] OTHER ->
              /\ sread' = sread + 1
              /\ IF sframes[sread + 1].choices
                 THEN /\ dpc' = "sendChunk"
                      /\ pending' = ToChunk(sframes[sread + 1])
                 ELSE /\ dpc' = "recv"
                      /\ pending' = pending
    /\ UNCHANGED <<sframes, stail, spc, sret, nopen, ncancel, recvd, sctx,
                   scancelAt, stopped, nrelease, nclose, sexit>>
    /\ UNCHANGED notStream

\* the consumer receives the chunk the goroutine is sending
ConsumerRecv ==
    /\ dpc \in {"sendChunk", "sendDone", "sendErr"}
    /\ ~stopped
    /\ recvd' = Append(recvd, pending)
    /\ pending' = NoChunk
    /\ dpc' = AfterSend(dpc)
    /\ sexit' = CASE AfterSend(dpc) = "recv" -> sexit
                  [] dpc = "sendErr" -> "error"
                  [] OTHER -> "eof"
    /\ UNCHANGED <<sframes, stail, spc, sret, nopen, ncancel, sread, sctx,
                   scancelAt, stopped, nrelease, nclose>>
    /\ UNCHANGED notStream

\* the consumer gives up: it will not receive from the channel again
ConsumerStops ==
    /\ sret.chan
    /\ ~stopped
    /\ nclose = 0
    /\ stopped' = TRUE
    /\ UNCHANGED <<sframes, stail, spc, sret, nopen, ncancel, dpc, sread,
                   pending, recvd, sctx, scancelAt, nrelease, nclose, sexit>>
    /\ UNCHANGED notStream

\* the stream's token is signaled: the caller cancels, or the timeout passes
StreamCancel(e) ==
    /\ dpc \in {"recv", "sendChunk", "sendDone", "sendErr"}
    /\ sctx = NilErr
    /\ sctx' = e
    /\ scancelAt' = Len(recvd)
    /\ UNCHANGED <<sframes, stail, spc, sret, nopen, ncancel, dpc, sread,
                   pending, recvd, stopped, nrelease, nclose, sexit>>
    /\ UNCHANGED notStream

\* select: case <-ctx.Done(): return, the pending chunk is not sent
StreamCtxDone ==
    /\ SendRaced(dpc)
    /\ sctx # NilErr
    /\ dpc' = "exit"
    /\ pending' = NoChunk
    /\ sexit' = "cancel"
    /\ UNCHANGED <<sframes, stail, spc, sret, nopen, ncancel, sread, recvd,
                   sctx, scancelAt, stopped, nrelease, nclose>>
    /\ UNCHANGED notStream

\* the deferred calls, last one first: stream.Close()
StreamClose ==
    /\ dpc = "exit"
    /\ dpc' = "unscope"
    /\ nrelease' = IF ReleasesOnExit(sexit) THEN nrelease + 1 ELSE nrelease
    /\ UNCHANGED <<sframes, stail, spc, sret, nopen, ncancel, sread, pending,
                   recvd, sctx, scancelAt, stopped, nclose, sexit>>
    /\ UNCHANGED notStream

\* cancel()
StreamUnscope ==
    /\ dpc = "unscope"
    /\ dpc' = "closing"
    /\ ncancel' = ncancel + 1
    /\ UNCHANGED <<sframes, stail, spc, sret, nopen, sread, pending, recvd,
                   sctx, scancelAt, stopped, nrelease, nclose, sexit>>
    /\ UNCHANGED notStream

\* close(chunkChan)
StreamCloseChan ==
    /\ dpc = "closing"
    /\ dpc' = "closed"
    /\ nclose' = nclose + 1
    /\ UNCHANGED <<sframes, stail, spc, sret, nopen, ncancel, sread, pending,
                   recvd, sctx, scancelAt, stopped, nrelease, sexit>>
    /\ UNCHANGED notStream

StreamNext ==
    \/ \E e \in OpenOutcomes : StreamOpen(e)
    \/ \E out \in {"frame", "eof", "err", "ctx"} : StreamRecv(out)
    \/ ConsumerRecv
    \/ ConsumerStops
    \/ \E e \in {CtxCanceled, CtxDeadline} : StreamCancel(e)
    \/ StreamCtxDone
    \/ StreamClose
    \/ StreamUnscope
    \/ StreamCloseChan

(***************************************************************************)
(* A run of chunks: MessageChunkAction.Execute applied again and again to  *)
(* a state whose messages and whose backing array's spare capacity are     *)
(* drawn at the start.  The deltas are <<1>>, <<2>>, ...                    *)
(***************************************************************************)
\* most messages in the state before the first chunk
MaxPre == 2
\* most chunks applied
MaxChunks == 3

\* the k-th message of the state before the run: its content is <<-k>>
PreMessages(n) ==
    {f \in [1..n -> [role : Roles, content : {<<-k>> : k \in 1..n},
                     ts : 1..MaxClock]] :
        \A k \in 1..n : f[k].content = <<-k>>}

ChunkRest ==
    /\ cinit = <<>>
    /\ ckey = [role |-> RoleAssistant, ts |-> 1]
    /\ clog = <<>>

\* a state of any messages, in an array with or without spare capacity, and
\* the role and timestamp of the chunks to come
ChunkInit ==
    /\ \E n \in 0..MaxPre : cinit \in PreMessages(n)
    /\ ckey \in [role : Roles, ts : 1..MaxClock]
    /\ clog = <<>>
    /\ \E spare \in 0..1 :
          /\ heap = <<cinit \o Zeros(spare)>>
          /\ mstate = [InitState EXCEPT
                          !.msgs = [arr |-> 1, len |-> Len(cinit),
                                    cap |-> Len(cinit) + spare]]
    /\ mu = NoTask
    /\ listeners = <<>>
    /\ task = [t \in Tasks |-> IdleTask]
    /\ now = 1
    /\ ndisp = 0
    /\ gor = <<>>
    /\ applied = <<>>
    /\ npanic = 0
    /\ snap = InitState
    /\ nmut = 0

\* MessageChunkAction{Message{ckey.role, delta, ckey.ts}}.Execute(state)
ChunkApply ==
    /\ Len(clog) < MaxChunks
    /\ LET delta == <<Len(clog) + 1>>
           r == Execute(ChunkAction(ckey.role, delta, ckey.ts), mstate, heap, now)
       IN /\ mstate' = r.state
          /\ heap' = r.heap
          /\ clog' = Append(clog, delta)
    /\ UNCHANGED <<cinit, ckey>>
    /\ UNCHANGED notChunk

ChunkNext == ChunkApply

\* One action of each type, as the k-th Dispatch call on a state of any
\* messages carries it; the chunk has the role and timestamp drawn at the
\* start.
AnyStateInputs(k) ==
    {StartedAction(RoleUser, <<k>>), StartedAction(RoleAssistant, <<k>>),
     ChunkAction(ckey.role, <<k>>, ckey.ts), CompletedAction(TRUE),
     TerminateAction, ChangeProviderAction("lmstudio", "gemma"), ClearAction}

\* Dispatch calls of one caller on a store whose state holds any messages
AnyStateNext ==
    \/ \E a \in AnyStateInputs(ndisp + 1) : DispatchExecute("t1", a)
    \/ DispatchCommit("t1")

(***************************************************************************)
(* The orchestrator: agentImpl.Start, messageHandler and onStateChange.    *)
(* A stream is what its channel will deliver: content chunks, then a Done  *)
(* chunk or an error chunk or neither, then the close.  The receiver of    *)
(* a.output keeps receiving, so a send on it ends when the channel is open *)
(* and panics when it is closed; a panic ends the process.                 *)
(***************************************************************************)
\* inbound messages in one behaviour
MaxTurns == 2
\* most content chunks of one stream
MaxDeltas == 2
\* most TerminateAgent actions dispatched
MaxTerminate == 2

Turns == 1..MaxTurns

\* the j-th content chunk of turn t's stream: no two deltas are alike
DeltaAt(t, j) == <<10 * t + j>>

\* the inbound message of turn t
InputMessage(t) == Message(RoleUser, <<-t>>, 0)

\* what the channel of turn t's stream can deliver before it is closed
AgentStreams(t) ==
    {[j \in 1..m |-> Chunk(DeltaAt(t, j), FALSE, NilErr)] \o tail :
        m \in 0..MaxDeltas,
        tail \in {<<DoneChunk>>, <<ErrorChunk(ErrUnexpectedEOF)>>, <<>>}}

\* the errors StreamChatCompletion returns
OpenErrors ==
    {Wrap("stream creation failed", e) : e \in OpenOutcomes \ {NilErr}}

\* a turn no message has arrived for
NoTurn ==
    [pc |-> "none", stream |-> <<>>, opened |-> "no", operr |-> NilErr,
     builder |-> <<>>, msgTime |-> 0, taken |-> 0]

\* an entry of the log of dispatched actions: the action, the error it
\* carries and Model.Busy in the state the dispatch stored
Entry(a, e, busy) ==
    [type |-> a.type, success |-> a.success, err |-> e, content |-> a.content,
     busy |-> busy]

NoneRunning == [completed |-> [t \in Turns |-> 0], terminate |-> 0]

AgentRest ==
    /\ ain = 0
    /\ apc = "exited"
    /\ aturn = [t \in Turns |-> NoTurn]
    /\ actx = NilErr
    /\ aout = [sent |-> 0, closes |-> 0]
    /\ apend = NoneRunning
    /\ alog = [t \in Turns |-> <<>>]
    /\ aterm = 0
    /\ acrash = "none"

\* Task(...) has built the agent and registered onStateChange; Start has
\* started its goroutine, which waits in its select.
AgentInit ==
    /\ ain = 0
    /\ apc = "wait"
    /\ aturn = [t \in Turns |-> NoTurn]
    /\ actx = NilErr
    /\ aout = [sent |-> 0, closes |-> 0]
    /\ apend = NoneRunning
    /\ alog = [t \in Turns |-> <<>>]
    /\ aterm = 0
    /\ acrash = "none"

\* a.Dispatch(action) for turn t with the error e in the action: the store
\* executes the action, stores the result and starts onStateChange, which
\* has something to do for the Completed and the Terminate actions.
AgentDispatch(t, a, e) ==
    /\ LET r == Execute(a, mstate, heap, now)
       IN /\ heap' = r.heap
          /\ mstate' = [r.state EXCEPT !.updated = now]
          /\ alog' = IF t \in Turns
                     THEN [alog EXCEPT ![t] = Append(@, Entry(a, e, r.state.busy))]
                     ELSE alog
    /\ apend' = CASE a.type = "Completed" ->
                       [apend EXCEPT !.completed[t] = @ + 1]
                  [] a.type = "Terminate" ->
                       [apend EXCEPT !.terminate = @ + 1]
                  [] OTHER -> apend

NoDispatch == UNCHANGED <<heap, mstate, alog, apend>>

\* the select of the consumer has no `case <-ctx.Done()`
CtxChecked_Never(ctxErr) == FALSE

\* `select { case <-ctx.Done(): ... default: ... }` in the consumer's loop
CtxChecked(ctxErr) == ctxErr # NilErr

\* the consumer goes on with its loop after it dispatched the completion
AfterCompleted_NoReturn(pc) == "range"

\* `return` after a.Dispatch(ChatCompletionCompletedAction{...})
AfterCompleted(pc) == "done"

\* nothing is dispatched when the stream cannot be opened
CompletesOnOpenError_Not(e) == FALSE

\* `if res, err = a.StreamChatCompletion(...); err != nil { a.Dispatch(...) }`
CompletesOnOpenError(e) == e # NilErr

\* a send on a.output: the status is received, or the channel is closed and
\* the send panics
SendStatus(t, kind) ==
    IF aout.closes > 0
    THEN /\ acrash' = "send on closed channel"
         /\ aout' = aout
    ELSE /\ acrash' = acrash
         /\ aout' = [aout EXCEPT !.sent = @ + 1]

\* Start's select takes a message from the input channel, and messageHandler
\* dispatches ChatCompletionStarted for it.
MessageArrives ==
    /\ acrash = "none"
    /\ apc = "wait"
    /\ ain < MaxTurns
    /\ ain' = ain + 1
    /\ apc' = "status"
    /\ AgentDispatch(ain + 1,
                     StartedAction(InputMessage(ain + 1).role,
                                   InputMessage(ain + 1).content), NilErr)
    /\ now' = now + 1
    /\ UNCHANGED <<aturn, actx, aout, aterm, acrash>>
    /\ UNCHANGED notAgent

\* Start's select takes ctx.Done(): the goroutine returns
StartExits ==
    /\ acrash = "none"
    /\ apc = "wait"
    /\ actx # NilErr
    /\ apc' = "exited"
    /\ NoDispatch
    /\ UNCHANGED <<ain, aturn, actx, aout, aterm, acrash, now>>
    /\ UNCHANGED notAgent

\* messageHandler: a.output <- AgentStatus{Message: input}
HandlerStatus ==
    /\ acrash = "none"
    /\ apc = "status"
    /\ SendStatus(ain, "input")
    /\ apc' = IF aout.closes > 0 THEN apc ELSE "open"
    /\ NoDispatch
    /\ UNCHANGED <<ain, aturn, actx, aterm, now>>
    /\ UNCHANGED notAgent

\* messageHandler: GetState, the request, StreamChatCompletion on
\* context.Background(): an error e, and ChatCompletionCompleted{false, e} is
\* dispatched; or the channel of a stream, and the consumer goroutine is
\* started.
HandlerOpen(e, stream) ==
    /\ acrash = "none"
    /\ apc = "open"
    /\ apc' = "wait"
    /\ IF e # NilErr
       THEN /\ aturn' = [aturn EXCEPT ![ain].opened = "failed",
                                         ![ain].operr = e]
            /\ IF CompletesOnOpenError(e)
               THEN AgentDispatch(ain, CompletedAction(FALSE), e)
               ELSE NoDispatch
       ELSE /\ aturn' = [aturn EXCEPT ![ain] =
                            [pc |-> "range", stream |-> stream, opened |-> "yes",
                             operr |-> NilErr, builder |-> <<>>,
                             msgTime |-> now, taken |-> 0]]
            /\ NoDispatch
    /\ UNCHANGED <<ain, actx, aout, aterm, acrash, now>>
    /\ UNCHANGED notAgent

\* The consumer receives a chunk and runs the select: with the token
\* signaled it dispatches ChatCompletionCompleted{false, ctx.Err()} and
\* returns; on an error chunk it dispatches
\* ChatCompletionCompleted{false, ctx.Err()} and returns; else it adds the
\* delta to the builder and goes on to send the status.
ConsumerChunk(t) ==
    /\ acrash = "none"
    /\ aturn[t].pc = "range"
    /\ aturn[t].stream # <<>>
    /\ LET chunk == Head(aturn[t].stream)
       IN IF CtxChecked(actx) \/ chunk.err # NilErr
          THEN /\ aturn' = [aturn EXCEPT ![t].pc = AfterCompleted(@),
                                         ![t].stream = Tail(@),
                                         ![t].taken = @ + 1]
               /\ AgentDispatch(t, CompletedAction(FALSE), actx)
          ELSE /\ aturn' = [aturn EXCEPT ![t].pc = "status",
                                         ![t].stream = Tail(@),
                                         ![t].taken = @ + 1,
                                         ![t].builder = @ \o chunk.delta]
               /\ NoDispatch
    /\ UNCHANGED <<ain, apc, actx, aout, aterm, acrash, now>>
    /\ UNCHANGED notAgent

\* the consumer: a.output <- AgentStatus{Message: chunkMsg}, then
\* a.Dispatch(MessageChunkAction{chunkMsg}); the content of chunkMsg is
\* builder.String()
ConsumerSend(t) ==
    /\ acrash = "none"
    /\ aturn[t].pc = "status"
    /\ SendStatus(t, "chunk")
    /\ IF aout.closes > 0
       THEN NoDispatch /\ aturn' = aturn
       ELSE /\ AgentDispatch(t, ChunkAction(RoleAssistant, aturn[t].builder,
                                            aturn[t].msgTime), NilErr)
            /\ aturn' = [aturn EXCEPT ![t].pc = "range"]
    /\ UNCHANGED <<ain, apc, actx, aterm, now>>
    /\ UNCHANGED notAgent

\* the consumer's range loop ends, the channel is closed: it dispatches
\* ChatCompletionCompleted{Success: true}
ConsumerClosed(t) ==
    /\ acrash = "none"
    /\ aturn[t].pc = "range"
    /\ aturn[t].stream = <<>>
    /\ aturn' = [aturn EXCEPT ![t].pc = "done"]
    /\ AgentDispatch(t, CompletedAction(TRUE), NilErr)
    /\ UNCHANGED <<ain, apc, actx, aout, aterm, acrash, now>>
    /\ UNCHANGED notAgent

\* a goroutine of onStateChange runs for a ChatCompletionCompleted of turn
\* t: a.output <- AgentStatus{...}
NotifyCompleted(t) ==
    /\ acrash = "none"
    /\ apend.completed[t] > 0
    /\ apend' = [apend EXCEPT !.completed[t] = @ - 1]
    /\ SendStatus(t, "completed")
    /\ UNCHANGED <<heap, mstate, alog>>
    /\ UNCHANGED <<ain, apc, aturn, actx, aterm, now>>
    /\ UNCHANGED notAgent

\* a goroutine of onStateChange runs for a TerminateAgent: close(a.output),
\* which panics when the channel is closed already
NotifyTerminate ==
    /\ acrash = "none"
    /\ apend.terminate > 0
    /\ apend' = [apend EXCEPT !.terminate = @ - 1]
    /\ aout' = [aout EXCEPT !.closes = @ + 1]
    /\ acrash' = IF aout.closes > 0 THEN "close of closed channel" ELSE acrash
    /\ UNCHANGED <<heap, mstate, alog>>
    /\ UNCHANGED <<ain, apc, aturn, actx, aterm, now>>
    /\ UNCHANGED notAgent

\* the UI dispatches TerminateAgentAction
Terminate ==
    /\ acrash = "none"
    /\ aterm < MaxTerminate
    /\ aterm' = aterm + 1
    /\ AgentDispatch(0, TerminateAction, NilErr)
    /\ UNCHANGED <<ain, apc, aturn, actx, aout, acrash, now>>
    /\ UNCHANGED notAgent

\* the orchestrator's token is signaled
AgentCancel ==
    /\ acrash = "none"
    /\ actx = NilErr
    /\ actx' = CtxCanceled
    /\ NoDispatch
    /\ UNCHANGED <<ain, apc, aturn, aout, aterm, acrash, now>>
    /\ UNCHANGED notAgent

\* the UI dispatches ClearMessagesAction
UIClear ==
    /\ acrash = "none"
    /\ AgentDispatch(0, ClearAction, NilErr)
    /\ UNCHANGED <<ain, apc, aturn, actx, aout, aterm, acrash, now>>
    /\ UNCHANGED notAgent

TurnsNext ==
    \/ MessageArrives
    \/ StartExits
    \/ HandlerStatus
    \/ \E e \in OpenErrors : HandlerOpen(e, <<>>)
    \/ \E s \in AgentStreams(ain) : HandlerOpen(NilErr, s)
    \/ \E t \in Turns : ConsumerChunk(t)
    \/ \E t \in Turns : ConsumerSend(t)
    \/ \E t \in Turns : ConsumerClosed(t)
    \/ \E t \in Turns : NotifyCompleted(t)
    \/ AgentCancel

AgentNext ==
    \/ TurnsNext
    \/ Terminate
    \/ NotifyTerminate

\* the turns and the UI's ClearMessages
TurnsUINext ==
    \/ TurnsNext
    \/ UIClear

(***************************************************************************)
(* One turn of the orchestrator over the stream of StreamChatCompletion:    *)
(* messageHandler calls it with context.Background(), so the token of the   *)
(* stream is that of context.WithTimeout(context.Background(),              *)
(* p.config.Timeout), which only the timeout signals; the consumer of the   *)
(* channel is the goroutine of messageHandler.                              *)
(***************************************************************************)
\* Start takes the first message
FirstMessage == ain = 0 /\ MessageArrives

\* messageHandler: GetState, the request, a.StreamChatCompletion(
\* context.Background(), req) up to its return, and what messageHandler does
\* with the result
TurnOpen(e) ==
    /\ acrash = "none"
    /\ apc = "open"
    /\ spc = "start"
    /\ apc' = "wait"
    /\ spc' = "returned"
    /\ nopen' = nopen + 1
    /\ IF e # NilErr
       THEN /\ ncancel' = CancelsOnOpenFailure(ncancel)
            /\ sret' = [chan |-> FALSE, err |-> Wrap("stream creation failed", e)]
            /\ dpc' = dpc
            /\ aturn' = [aturn EXCEPT
                            ![ain].opened = "failed",
                            ![ain].operr = Wrap("stream creation failed", e)]
            /\ IF CompletesOnOpenError(e)
               THEN AgentDispatch(ain, CompletedAction(FALSE),
                                  Wrap("stream creation failed", e))
               ELSE NoDispatch
       ELSE /\ ncancel' = ncancel
            /\ sret' = [chan |-> TRUE, err |-> NilErr]
            /\ dpc' = "recv"
            /\ aturn' = [aturn EXCEPT ![ain] =
                            [pc |-> "range", stream |-> <<>>, opened |-> "yes",
                             operr |-> NilErr, builder |-> <<>>,
                             msgTime |-> now, taken |-> 0]]
            /\ NoDispatch
    /\ UNCHANGED <<sframes, stail, sread, pending, recvd, sctx, scancelAt,
                   stopped, nrelease, nclose, sexit>>
    /\ UNCHANGED <<ain, actx, aout, aterm, acrash, now>>
    /\ UNCHANGED <<listeners, mu, task, ndisp, gor, applied, npanic, snap, nmut,
                   retryVars, chunkVars, buildVars>>

\* The consumer of turn t receives the chunk the decode goroutine is sending
\* and runs its select: with the orchestrator's token signaled, or on an
\* error chunk, it dispatches ChatCompletionCompleted{false, ctx.Err()} and
\* returns, and nobody receives from the channel any more.
TurnConsumerRecv(t) ==
    /\ acrash = "none"
    /\ aturn[t].pc = "range"
    /\ dpc \in {"sendChunk", "sendDone", "sendErr"}
    /\ recvd' = Append(recvd, pending)
    /\ pending' = NoChunk
    /\ dpc' = AfterSend(dpc)
    /\ sexit' = CASE AfterSend(dpc) = "recv" -> sexit
                  [] dpc = "sendErr" -> "error"
                  [] OTHER -> "eof"
    /\ IF CtxChecked(actx) \/ pending.err # NilErr
       THEN /\ aturn' = [aturn EXCEPT ![t].pc = AfterCompleted(@),
                                      ![t].taken = @ + 1]
            /\ stopped' = TRUE
            /\ AgentDispatch(t, CompletedAction(FALSE), actx)
       ELSE /\ aturn' = [aturn EXCEPT ![t].pc = "status",
                                      ![t].taken = @ + 1,
                                      ![t].builder = @ \o pending.delta]
            /\ stopped' = stopped
            /\ NoDispatch
    /\ UNCHANGED <<sframes, stail, spc, sret, nopen, ncancel, sread, sctx,
                   scancelAt, nrelease, nclose>>
    /\ UNCHANGED <<ain, apc, actx, aout, aterm, acrash, now>>
    /\ UNCHANGED <<listeners, mu, task, ndisp, gor, applied, npanic, snap, nmut,
                   retryVars, chunkVars, buildVars>>

\* the consumer of turn t finds the channel closed: its range loop ends and
\* it dispatches ChatCompletionCompleted{Success: true}
TurnConsumerClosed(t) ==
    /\ acrash = "none"
    /\ aturn[t].pc = "range"
    /\ dpc = "closed"
    /\ aturn' = [aturn EXCEPT ![t].pc = "done"]
    /\ AgentDispatch(t, CompletedAction(TRUE), NilErr)
    /\ UNCHANGED <<ain, apc, actx, aout, aterm, acrash, now>>
    /\ UNCHANGED notAgent

\* p.config.Timeout passes: the stream's token is signaled
StreamTimeout == StreamCancel(CtxDeadline)

TurnStreamNext ==
    \/ FirstMessage
    \/ HandlerStatus
    \/ \E e \in OpenOutcomes : TurnOpen(e)
    \/ \E out \in {"frame", "eof", "err", "ctx"} : StreamRecv(out)
    \/ TurnConsumerRecv(1)
    \/ ConsumerSend(1)
    \/ TurnConsumerClosed(1)
    \/ NotifyCompleted(1)
    \/ AgentCancel
    \/ StreamTimeout
    \/ StreamCtxDone
    \/ StreamClose
    \/ StreamUnscope
    \/ StreamCloseChan

(***************************************************************************)
(* Request construction: LMStudioProvider.convertToOpenAIRequest, for a     *)
(* request without tools.  The i-th message of a request has the content    *)
(* <<i>>, so that the order of the messages shows.                          *)
(***************************************************************************)
\* most messages of one ChatRequest
MaxMessages == 2

RoleSystem == "system"
RoleTool == "tool"
RequestRoles == {RoleSystem, RoleUser, RoleAssistant, RoleTool}

\* ChatRequest.SystemPrompt: "" or a prompt
SystemPrompts == {<<>>, <<100>>}

\* p.defaultModel
DefaultModel == "default-model"

\* the message lists of up to n messages
RequestMessages(n) ==
    UNION {{[i \in 1..m |-> Message(rs[i], <<i>>, i)] :
                rs \in [1..m -> RequestRoles]} : m \in 0..n}

ChatRequests ==
    [messages : RequestMessages(MaxMessages), model : {"", "gemma"},
     systemPrompt : SystemPrompts, temperature : {0, 1}, maxTokens : {0, 1}]

\* the zero ChatRequest
NoRequest ==
    [messages |-> <<>>, model |-> "", systemPrompt |-> <<>>,
     temperature |-> 0, maxTokens |-> 0]

\* openai.ChatCompletionMessage{Role: string(msg.Role), Content: msg.Content,
\* Name: ""}
WireMessage(msg) == [role |-> msg.role, content |-> msg.content, name |-> ""]

\* openai.ChatCompletionMessage{Role: string(state.RoleSystem), Content: prompt}
SystemMessage(prompt) == [role |-> RoleSystem, content |-> prompt, name |-> ""]

\* the system message is prepended whenever there is a prompt
PrependsSystem_Always(prompt, msgs) == prompt # <<>>

\* `if req.SystemPrompt != "" { if len(openAIReq.Messages) == 0 ||
\* openAIReq.Messages[0].Role != string(state.RoleSystem) {`
PrependsSystem(prompt, msgs) ==
    prompt # <<>> /\ (Len(msgs) = 0 \/ msgs[1].role # RoleSystem)

ConvertToOpenAIRequest(req, stream) ==
    LET converted ==
            [i \in 1..Len(req.messages) |-> WireMessage(req.messages[i])]
    IN [model |-> IF req.model = "" THEN DefaultModel ELSE req.model,
        stream |-> stream,
        temperature |-> IF req.temperature > 0 THEN req.temperature ELSE 0,
        maxTokens |-> IF req.maxTokens > 0 THEN req.maxTokens ELSE 0,
        messages |-> IF PrependsSystem(req.systemPrompt, converted)
                     THEN <<SystemMessage(req.systemPrompt)>> \o converted
                     ELSE converted]

RequestRest ==
    /\ qreq = NoRequest
    /\ qwire = <<>>

RequestInit ==
    /\ qreq \in ChatRequests
    /\ qwire = <<>>

\* p.convertToOpenAIRequest(req, stream)
ConvertRequest(stream) ==
    /\ qwire = <<>>
    /\ qwire' = <<ConvertToOpenAIRequest(qreq, stream)>>
    /\ UNCHANGED <<qreq, nargs, nstore, gargs, gret>>
    /\ UNCHANGED notBuild

RequestNext == \E stream \in BOOLEAN : ConvertRequest(stream)

(***************************************************************************)
(* Store construction: NewMemoryState(systemPrompt, workingDirectory,       *)
(* sessionName).  A string is a sequence of tokens, "" is <<>>.             *)
(***************************************************************************)
\* the strings an argument is drawn from, besides ""
MaxNames == 2

PlanMode == "plan"

DefaultSystemPrompt ==
    <<"You are an AI assistant that autonomously writes code and helps the user with programming tasks.">>

\* "" and the strings "1", "2", ...
Names(n) == {<<>>} \cup {<<ToString(k)>> : k \in 1..n}

\* what os.Getwd() returns: a directory, or an error
GetwdOutcomes ==
    {[dir |-> <<"/home">>, err |-> FALSE], [dir |-> <<>>, err |-> TRUE]}

\* now.Format("session-20060102150405")
SessionFormat(t) == <<"session-", ToString(t)>>

\* the session name is stored as given
SessionName_AsGiven(sessionName, t) == sessionName

\* `if sessionName == "" { sessionName = now.Format(...) }`
SessionName(sessionName, t) ==
    IF sessionName = <<>> THEN SessionFormat(t) ELSE sessionName

\* `if workingDirectory == "" { workingDirectory, err = os.Getwd(); if err !=
\* nil { workingDirectory = "." } }`
WorkingDirectory(workingDirectory, getwd) ==
    IF workingDirectory # <<>> THEN workingDirectory
    ELSE IF getwd.err THEN <<".">> ELSE getwd.dir

\* The MemoryState built at time t: the fields of InitState, and those of
\* Context the construction sets.
NewMemoryState(systemPrompt, workingDirectory, sessionName, t, getwd) ==
    [state |->
        [msgs |-> NilSlice, busy |-> FALSE, provider |-> "", name |-> "",
         created |-> t, updated |-> t, mode |-> PlanMode,
         systemPrompt |-> IF systemPrompt = <<>> THEN DefaultSystemPrompt
                          ELSE systemPrompt,
         workingDirectory |-> WorkingDirectory(workingDirectory, getwd),
         sessionID |-> SessionName(sessionName, t)],
     listeners |-> <<>>,
     mu |-> NoTask]

NoArgs ==
    [systemPrompt |-> <<>>, workingDirectory |-> <<>>, sessionName |-> <<>>,
     now |-> 1, getwd |-> [dir |-> <<>>, err |-> TRUE]]

NewRest ==
    /\ nargs = NoArgs
    /\ nstore = <<>>

NewInit ==
    /\ nargs \in [systemPrompt : Names(MaxNames),
                  workingDirectory : Names(MaxNames),
                  sessionName : Names(MaxNames),
                  now : 1..MaxClock, getwd : GetwdOutcomes]
    /\ nstore = <<>>

\* NewMemoryState(systemPrompt, workingDirectory, sessionName)
NewStore ==
    /\ nstore = <<>>
    /\ nstore' = <<NewMemoryState(nargs.systemPrompt, nargs.workingDirectory,
                                  nargs.sessionName, nargs.now, nargs.getwd)>>
    /\ UNCHANGED <<qreq, qwire, nargs, gargs, gret>>
    /\ UNCHANGED notBuild

NewNext == NewStore

(***************************************************************************)
(* llm.GetProvider (the version with a Dispatcher) and its call in          *)
(* agent.Task.  NewOpenAIProvider is not in the sources at hand: it returns *)
(* a provider, or an error.                                                 *)
(***************************************************************************)
ProviderOpenAI == "openai"
ProviderLMStudio == "lmstudio"

\* the provider ids a caller may pass: the two supported ones, "" and one
\* that no case of the switch names
ProviderIds == {ProviderOpenAI, ProviderLMStudio, "", "anthropic"}

ModelNames == {"", "gemma", "gpt"}

\* pc.DefaultModel = "gemma-3n-e4b-it"
DefaultProviderModel == "gemma-3n-e4b-it"

\* a Provider value: the nil interface, an interface holding a nil pointer
\* (what the assignment of a failed constructor's result gives), a provider
ProviderValue(kind, name, model) == [kind |-> kind, name |-> name, model |-> model]
NilProvider == ProviderValue("nil", "", "")

ErrNoProvider == Err(<<"provider not created">>, 0, <<>>)

\* what the constructor of provider p may return as its error
ConstructorOutcomes(p) ==
    IF p = ProviderOpenAI THEN {NilErr, ErrNoProvider} ELSE {NilErr}

\* an id that no case names is an error
UnknownProvider_IsError(p) == [pr |-> NilProvider, err |-> ErrNoProvider]

\* `default: return`: the named results as they are, (nil, nil)
UnknownProvider(p) == [pr |-> NilProvider, err |-> NilErr]

\* `pr, err = NewOpenAIProvider(pc)`, `pr, err = NewLMStudioProvider(pc)`;
\* pr.Model() is the configured default model
NewProvider(p, model, e) ==
    IF e # NilErr
    THEN [pr |-> ProviderValue("typednil", p, ""), err |-> e]
    ELSE [pr |-> ProviderValue("provider", p,
                               IF model = "" THEN DefaultProviderModel
                               ELSE model),
          err |-> NilErr]

\* GetProvider(d, p, model) with the constructor returning the error e: the
\* results, and the action it dispatches, if any
GetProvider(p, model, e) ==
    IF p \notin {ProviderOpenAI, ProviderLMStudio}
    THEN [pr |-> UnknownProvider(p).pr, err |-> UnknownProvider(p).err,
          dispatch |-> <<>>]
    ELSE LET r == NewProvider(p, model, e)
         IN [pr |-> r.pr, err |-> r.err,
             dispatch |-> IF r.err # NilErr THEN <<>>
                          ELSE <<ChangeProviderAction(p, r.pr.model)>>]

\* Task: `if input.Provider == "" { input.Provider =
\* ag.Dispatcher.GetState().Model.Provider }`
TaskProvider(inputProvider, stateProvider) ==
    IF inputProvider = "" THEN stateProvider ELSE inputProvider

NoProviderArgs == [p |-> "", model |-> "", outcome |-> NilErr]

ProviderRest ==
    /\ gargs = NoProviderArgs
    /\ gret = <<>>

ProviderInit ==
    /\ gargs \in [p : ProviderIds, model : ModelNames,
                  outcome : {NilErr, ErrNoProvider}]
    /\ gargs.outcome \in ConstructorOutcomes(gargs.p)
    /\ gret = <<>>

\* the store the call is given: a new one, or one whose Model was set by an
\* earlier ChangeProviderSettings
ProviderStoreInit ==
    /\ heap = <<>>
    /\ \E sp \in {"", ProviderOpenAI, ProviderLMStudio} : \E sn \in ModelNames :
          mstate = [InitState EXCEPT !.provider = sp, !.name = sn]
    /\ mu = NoTask
    /\ listeners = <<>>
    /\ task = [t \in Tasks |-> IdleTask]
    /\ now = 1
    /\ ndisp = 0
    /\ gor = <<>>
    /\ applied = <<>>
    /\ npanic = 0
    /\ snap = InitState
    /\ nmut = 0

\* the call GetProvider(d, p, model) made with the results r: the Dispatch
\* inside it, and the return
ProviderCall(r) ==
    /\ gret = <<>>
    /\ gret' = <<[pr |-> r.pr, err |-> r.err, dispatched |-> r.dispatch # <<>>]>>
    /\ IF r.dispatch # <<>>
       THEN LET x == Execute(r.dispatch[1], mstate, heap, now)
            IN /\ heap' = x.heap
               /\ mstate' = [x.state EXCEPT !.updated = now]
       ELSE UNCHANGED <<heap, mstate>>
    /\ UNCHANGED <<mu, listeners, task, now, ndisp, gor, applied, npanic, snap,
                   nmut>>
    /\ UNCHANGED <<qreq, qwire, nargs, nstore, gargs>>
    /\ UNCHANGED <<retryVars, streamVars, chunkVars, agentVars>>

\* a caller calls llm.GetProvider(d, p, model)
GetProviderCall ==
    /\ gargs.p \in ProviderIds
    /\ ProviderCall(GetProvider(gargs.p, gargs.model, gargs.outcome))

\* Task calls llm.GetProvider(ag.Dispatcher, input.Provider, "")
TaskGetProvider ==
    /\ gargs.model = ""
    /\ LET p == TaskProvider(gargs.p, mstate.provider)
       IN /\ gargs.outcome \in ConstructorOutcomes(p)
          /\ ProviderCall(GetProvider(p, "", gargs.outcome))

ProviderNext ==
    \/ GetProviderCall
    \/ TaskGetProvider

BuildRest == RequestRest /\ NewRest /\ ProviderRest

vars == <<storeVars, retryVars, streamVars, chunkVars, agentVars, buildVars>>

\* The first turn over the stream it opens, under a fair scheduler: the
\* goroutines run when they can, the service answers a Recv, a.output is
\* received from, and the timeout of the stream passes.
TurnStreamSpecInit ==
    AgentInit /\ StoreInit /\ StreamInit /\ RetryRest /\ ChunkRest /\ BuildRest
SpecTurnStreamFair ==
    /\ TurnStreamSpecInit
    /\ [][TurnStreamNext]_vars
    /\ WF_vars(HandlerStatus)
    /\ WF_vars(\E e \in OpenOutcomes : TurnOpen(e))
    /\ WF_vars(\E out \in {"frame", "eof", "err", "ctx"} : StreamRecv(out))
    /\ WF_vars(TurnConsumerRecv(1))
    /\ WF_vars(ConsumerSend(1))
    /\ WF_vars(TurnConsumerClosed(1))
    /\ WF_vars(NotifyCompleted(1))
    /\ WF_vars(StreamTimeout)
    /\ WF_vars(StreamCtxDone)
    /\ WF_vars(StreamClose)
    /\ WF_vars(StreamUnscope)
    /\ WF_vars(StreamCloseChan)

\* one call that gets a provider
ProviderSpecInit ==
    /\ ProviderInit /\ ProviderStoreInit /\ RequestRest /\ NewRest
    /\ RetryRest /\ StreamRest /\ ChunkRest /\ AgentRest
SpecProvider == ProviderSpecInit /\ [][ProviderNext]_vars

\* one conversion of a ChatRequest
RequestSpecInit ==
    /\ RequestInit /\ NewRest /\ ProviderRest
    /\ StoreInit /\ RetryRest /\ StreamRest /\ ChunkRest /\ AgentRest
SpecRequest == RequestSpecInit /\ [][RequestNext]_vars

\* one construction of a store
NewSpecInit ==
    /\ NewInit /\ RequestRest /\ ProviderRest
    /\ StoreInit /\ RetryRest /\ StreamRest /\ ChunkRest /\ AgentRest
SpecNew == NewSpecInit /\ [][NewNext]_vars

\* the orchestrator with its turns, the token and the UI's Terminate
AgentSpecInit ==
    AgentInit /\ StoreInit /\ RetryRest /\ StreamRest /\ ChunkRest /\ BuildRest
SpecAgent == AgentSpecInit /\ [][AgentNext]_vars

\* the orchestrator with its turns while the UI clears the messages
SpecTurnsUI == AgentSpecInit /\ [][TurnsUINext]_vars

\* The turns under a fair scheduler, with no Terminate: every goroutine of
\* the orchestrator runs when it can, and the streams deliver.  Messages
\* arrive or not, the token is signaled or not.
SpecTurnsFair ==
    /\ AgentSpecInit
    /\ [][TurnsNext]_vars
    /\ WF_vars(HandlerStatus)
    /\ WF_vars(\E e \in OpenErrors : HandlerOpen(e, <<>>))
    /\ WF_vars(\E s \in AgentStreams(ain) : HandlerOpen(NilErr, s))
    /\ \A t \in Turns :
          /\ WF_vars(ConsumerChunk(t))
          /\ WF_vars(ConsumerSend(t))
          /\ WF_vars(ConsumerClosed(t))
          /\ WF_vars(NotifyCompleted(t))

\* a run of chunks over one state
ChunkSpecInit ==
    ChunkInit /\ RetryRest /\ StreamRest /\ AgentRest /\ BuildRest
SpecChunk == ChunkSpecInit /\ [][ChunkNext]_vars

\* Dispatch of every action type on a state of any messages
SpecAnyState == ChunkSpecInit /\ [][AnyStateNext]_vars

\* one call of retryRequest, with the store at rest
RetrySpecInit ==
    RetryInit /\ StoreInit /\ StreamRest /\ ChunkRest /\ AgentRest /\ BuildRest
SpecRetry == RetrySpecInit /\ [][RetryNext]_vars

\* one call of StreamChatCompletion and the consumer of its channel
StreamSpecInit ==
    StreamInit /\ StoreInit /\ RetryRest /\ ChunkRest /\ AgentRest /\ BuildRest
SpecStream == StreamSpecInit /\ [][StreamNext]_vars

\* The same under a fair scheduler: the goroutine runs when it can, the
\* service answers a Recv, and a consumer that has not given up receives.
\* The token is signaled or not, and the consumer gives up or not.
SpecStreamFair ==
    /\ StreamSpecInit
    /\ [][StreamNext]_vars
    /\ WF_vars(\E out \in {"frame", "eof", "err", "ctx"} : StreamRecv(out))
    /\ WF_vars(ConsumerRecv)
    /\ WF_vars(StreamCtxDone)
    /\ WF_vars(StreamClose)
    /\ WF_vars(StreamUnscope)
    /\ WF_vars(StreamCloseChan)

\* the store under concurrent dispatchers, with handlers
StoreSpecInit ==
    StoreInit /\ RetryRest /\ StreamRest /\ ChunkRest /\ AgentRest /\ BuildRest
SpecStore == StoreSpecInit /\ [][StoreNext]_vars

\* The store and handlers that call it back.  A Dispatch that holds the lock
\* goes on; no handler is made to end or to go on.
SpecHandlersFair ==
    /\ StoreSpecInit
    /\ [][HandlersNext]_vars
    /\ \A t \in Tasks : WF_vars(DispatchCommit(t))

\* The actions dispatched while the notifications are watched: one that
\* appends, one that rewrites in place, one that clears, one that fails.
NotifyInputs(k) ==
    {StartedAction(RoleUser, <<k>>), ChunkAction(RoleAssistant, <<k>>, 1),
     ClearAction, FailingAction}

NotifyNext ==
    \/ OnStateChange
    \/ \E t \in Tasks : \E a \in NotifyInputs(ndisp + 1) : DispatchExecute(t, a)
    \/ \E t \in Tasks : DispatchCommit(t)
    \/ \E i \in 1..(MaxDispatch * Len(Handlers)) : HandlerRun(i)

\* The store's notifications under a fair scheduler: every started goroutine
\* runs, so a started handler is eventually invoked and a Dispatch that
\* computed its result stores it.
SpecNotifyFair ==
    /\ StoreSpecInit
    /\ [][NotifyNext]_vars
    /\ \A i \in 1..(MaxDispatch * Len(Handlers)) : WF_vars(HandlerRun(i))
    /\ \A t \in Tasks : WF_vars(DispatchCommit(t))

(***************************************************************************)
(* A client of the store: it calls GetState and writes to what it got.     *)
(***************************************************************************)
\* the value GetState returns: a copy of the struct m.state
GetStateResult == mstate

\* MemoryState.GetState: RLock, return m.state, RUnlock
GetState ==
    /\ mu = NoTask
    /\ snap' = GetStateResult
    /\ snap # GetStateResult
    /\ UNCHANGED <<heap, mstate, mu, listeners, task, now, ndisp, gor, applied,
                   npanic, nmut>>
    /\ UNCHANGED notStore

\* the content the client writes: no Dispatch call carries it
ClientContent == <<0>>

\* the client assigns s.Model.Busy, a field of its own struct copy
MutateField ==
    /\ nmut < MaxMutations
    /\ nmut' = nmut + 1
    /\ snap' = [snap EXCEPT !.busy = ~@]
    /\ UNCHANGED <<heap, mstate, mu, listeners, task, now, ndisp, gor, applied,
                   npanic>>
    /\ UNCHANGED notStore

\* the client assigns s.Context.Messages[i].Content, an element of the array
\* its copy of the slice header points to
MutateElement(i) ==
    /\ nmut < MaxMutations
    /\ i \in 1..snap.msgs.len
    /\ nmut' = nmut + 1
    /\ heap' = [heap EXCEPT ![snap.msgs.arr][i].content = ClientContent]
    /\ UNCHANGED <<mstate, mu, listeners, task, now, ndisp, gor, applied,
                   npanic, snap>>
    /\ UNCHANGED notStore

ClientNext ==
    \/ Tick
    \/ \E a \in AllActionInputs(ndisp + 1, now) : DispatchExecute("t1", a)
    \/ DispatchCommit("t1")
    \/ GetState
    \/ MutateField
    \/ \E i \in 1..MaxDispatch : MutateElement(i)

SpecClient == StoreSpecInit /\ [][ClientNext]_vars

(***************************************************************************)
(* The reference the store is compared with: the left fold of Execute      *)
(* over the initial state, run alone on a heap of its own.                 *)
(***************************************************************************)
RECURSIVE FoldExec(_, _, _)
FoldExec(log, s, h) ==
    IF log = <<>> THEN [state |-> s, heap |-> h]
    ELSE LET r == Execute(Head(log).action, s, h, Head(log).at)
         IN FoldExec(Tail(log), r.state, r.heap)

\* what the state after the first n stored actions reads as
FoldView(n) ==
    LET r == FoldExec(SubSeq(applied, 1, n), InitState, <<>>)
    IN View(r.heap, r.state)

\* C1: when no Dispatch is in progress, every Dispatch call either panicked
\* or is in the log of stored actions exactly once, and the state GetState
\* returns reads as the left fold of Execute over that log.
C1_DispatchIsLeftFold ==
    mu = NoTask =>
        /\ Len(applied) + npanic = ndisp
        /\ View(heap, GetStateResult) = FoldView(Len(applied))

\* C1 witness: two dispatches were stored and both show in the state.
C1_Witness ==
    /\ mu = NoTask
    /\ Len(applied) = 2
    /\ Len(FoldView(2).msgs) = 2
    /\ View(heap, GetStateResult) = FoldView(2)


\* C2 (as claimed): a write the client makes through a state it got from
\* GetState leaves what GetState returns afterwards as it was.
C2_GetStateCopyIsolated ==
    [][nmut' # nmut => View(heap', mstate') = View(heap, mstate)]_vars

\* the goroutines started for handler h and dispatch n
Started(h, n) == {i \in DOMAIN gor : gor[i].h = h /\ gor[i].n = n}

\* how often handler h was invoked for dispatch n
Invocations(h, n) == Cardinality({i \in Started(h, n) : gor[i].done})

\* For every stored dispatch n and every handler registered at that time,
\* exactly one goroutine was started, and it was given the triggering action
\* and the state pair of the other handlers of that dispatch.
ExactlyOneStarted ==
    \A n \in 1..Len(applied) : \A j \in 1..Len(applied[n].ls) :
        LET G == Started(applied[n].ls[j], n)
        IN /\ Cardinality(G) = 1
           /\ \A i \in G :
                /\ gor[i].action = applied[n].action
                /\ \A k \in DOMAIN gor :
                     gor[k].n = n => gor[k].new = gor[i].new /\ gor[k].old = gor[i].old

\* dispatch n was stored while at least j handlers were registered
Notified(n, j) == Len(applied) >= n /\ Len(applied[n].ls) >= j

\* C3: after a successful Dispatch with K handlers registered, each of the K
\* handlers is invoked for it exactly once, eventually, with the same action
\* and the same state pair.
C3_HandlersInvokedOnce ==
    /\ []ExactlyOneStarted
    /\ \A n \in 1..MaxDispatch : \A j \in 1..Len(Handlers) :
         Notified(n, j) ~> (Notified(n, j) /\ Invocations(applied[n].ls[j], n) = 1)

\* C3 witness: a dispatch stored with two handlers registered, both invoked.
C3_Witness ==
    \E n \in 1..Len(applied) :
        /\ Len(applied[n].ls) = 2
        /\ \A j \in 1..2 : Invocations(applied[n].ls[j], n) = 1

\* C4 (as claimed): what a handler reads in the old and the new state it was
\* given for dispatch n is the state after dispatches 1..n-1 and after 1..n.
C4_HandlerSeesItsDispatch ==
    \A i \in DOMAIN gor :
        gor[i].done =>
            /\ gor[i].oldView = FoldView(gor[i].n - 1)
            /\ gor[i].newView = FoldView(gor[i].n)

C6_ExecutePure ==
    \A t \in Tasks :
        task[t].pc = "executed" =>
            View(heap, task[t].old) = FoldView(Len(applied))

(***************************************************************************)
(* The retry executor's claims.                                            *)
(***************************************************************************)
\* the error text carries one of the two markers
HasMarker(e) ==
    \E k \in DOMAIN e.msg : e.msg[k] \in {"invalid_api_key", "model_not_found"}

\* fn failed with an error that is retried
RetryableFailure(e) == e # NilErr /\ ~HasMarker(e)

RetryDone == rpc = "done" /\ rlog # <<>>
LastOutcome == rlog[Len(rlog)]

\* C7: when every attempt failed with a retryable error and the token was
\* never signaled, exactly maxRetries attempts were made and the error
\* returned names maxRetries and wraps the error of the last attempt.
C7_RetryExhaustion ==
    (/\ RetryDone
     /\ rctx = NilErr
     /\ \A k \in DOMAIN rlog : RetryableFailure(rlog[k]))
    => /\ Len(rlog) = rmax
       /\ rret.msg = <<"request failed after", "retries">>
       /\ rret.retries = rmax
       /\ rret.cause = LastOutcome.msg

\* C7 witness: three retryable failures, the last one different from the
\* first, and the aggregate error for 3 retries.
C7_Witness ==
    /\ RetryDone
    /\ rctx = NilErr
    /\ rmax = 3
    /\ Len(rlog) = 3
    /\ \A k \in DOMAIN rlog : RetryableFailure(rlog[k])
    /\ rlog[1] # rlog[3]
    /\ rret.retries = 3
    /\ rret.cause = rlog[3].msg

\* C8 (as claimed): when an attempt failed with a marked error and the token
\* was not signaled, that error is returned and exactly one attempt was made.
C8_Original ==
    (RetryDone /\ rctx = NilErr /\ HasMarker(LastOutcome))
    => rret = LastOutcome /\ Len(rlog) = 1

\* C8 (amended): an attempt that failed with a marked error is the last
\* attempt, whatever maxRetries is (the only attempt when it is the first
\* one), and when the token was not signaled the call returned that error
\* itself, not an aggregate error, without a backoff wait after it.
C8_NonRetryableStops ==
    \A k \in DOMAIN rlog :
        HasMarker(rlog[k]) =>
            /\ k = Len(rlog)
            /\ rpc = "done"
            /\ rwait = 0
            /\ rctx = NilErr => rret = rlog[k] /\ rret.retries = 0

\* C8 witness: the first attempt failed with a marked error on a provider
\* configured for three attempts.
C8_Witness ==
    /\ RetryDone
    /\ rctx = NilErr
    /\ rmax = 3
    /\ Len(rlog) = 1
    /\ HasMarker(rlog[1])
    /\ rret = rlog[1]

\* C9: a success is the last attempt: retryRequest has returned nil, and
\* no earlier failure is reported.
C9_SuccessReturns ==
    \A k \in DOMAIN rlog :
        rlog[k] = NilErr =>
            /\ k = Len(rlog)
            /\ k <= rmax
            /\ rpc = "done"
            /\ rret = NilErr

\* C9 witness: a success at the second attempt, after a failure.
C9_Witness ==
    /\ rpc = "done"
    /\ Len(rlog) = 2
    /\ rlog[1] # NilErr
    /\ rlog[2] = NilErr
    /\ rret = NilErr

\* C10: a failure of fn while the token is signaled makes retryRequest
\* return the token's error, with no backoff wait and no further attempt.
C10_CancelledAtFailure ==
    [][(/\ rpc = "attempt"
        /\ rctx # NilErr
        /\ Len(rlog') = Len(rlog) + 1
        /\ rlog'[Len(rlog')] # NilErr)
       => /\ rpc' = "done"
          /\ rret' = rctx
          /\ rret' \in {CtxCanceled, CtxDeadline}
          /\ rwait' = 0]_vars

\* C10 witness: the token was signaled during a retryable failure of the
\* first attempt, and the call returned the cancellation error.
C10_Witness ==
    /\ rpc = "done"
    /\ rmax = 3
    /\ Len(rlog) = 1
    /\ RetryableFailure(rlog[1])
    /\ rret = CtxCanceled
    /\ rwaited = 0

\* the token is signaled while the timer of a backoff wait has not fired
CancelledInWait == rpc = "backoff" /\ rwait > 0 /\ rctx # NilErr

\* C11: when the token is signaled during a backoff wait, the next step of
\* retryRequest is its return with the token's error: the wait has not
\* elapsed, fewer than maxRetries attempts were made, and no attempt is made
\* afterwards.
C11_CancelDuringBackoff ==
    [][/\ CancelledInWait
          => /\ rpc' = "done"
             /\ rret' = rctx
             /\ rret' \in {CtxCanceled, CtxDeadline}
             /\ rwait' > 0
             /\ rlog' = rlog
             /\ Len(rlog) < rmax
       /\ rpc = "done" => rlog' = rlog]_vars

\* C11 witness: with three attempts allowed, the first backoff elapsed and
\* the second one was aborted by the token: two attempts were made.
C11_Witness ==
    /\ rpc = "done"
    /\ rmax = 3
    /\ Len(rlog) = 2
    /\ rwaited >= 1
    /\ rwait > 0
    /\ rret = CtxCanceled

\* C12: attempt i (from 0) starts when the waits before it have lasted
\* 2^0 + ... + 2^(i-1) = 2^i - 1 seconds or more, so the wait after attempt
\* i lasts 2^i or more; a wait only follows an attempt i < maxRetries - 1;
\* and maxRetries retryable failures in a row have waited 2^(maxRetries-1) - 1
\* seconds or more, with no wait after the last one.
C12_BackoffSchedule ==
    /\ rpc = "attempt" => rwaited >= 2 ^ ri - 1
    /\ rpc = "backoff" => /\ ri < rmax - 1
                          /\ rwaited + rwait >= 2 ^ (ri + 1) - 1
    /\ (/\ RetryDone
         /\ rctx = NilErr
         /\ \A k \in DOMAIN rlog : RetryableFailure(rlog[k]))
        => /\ rwaited >= 2 ^ (rmax - 1) - 1
           /\ rwait = 0

\* C12 witness: three retryable failures with three attempts allowed, after
\* 1 + 2 = 3 seconds of waiting.
C12_Witness ==
    /\ RetryDone
    /\ rctx = NilErr
    /\ rmax = 3
    /\ Len(rlog) = 3
    /\ \A k \in DOMAIN rlog : RetryableFailure(rlog[k])
    /\ rwaited = 3

(***************************************************************************)
(* The streaming claims.                                                   *)
(***************************************************************************)
\* the responses of the stream that carry content, in order
RECURSIVE ContentFrames(_)
ContentFrames(fs) ==
    IF fs = <<>> THEN <<>>
    ELSE IF Head(fs).choices THEN <<Head(fs)>> \o ContentFrames(Tail(fs))
    ELSE ContentFrames(Tail(fs))

\* M, the number of content frames of the stream
NumContent == Len(ContentFrames(sframes))

\* what a consumer of the whole stream receives: one chunk per content
\* frame, then the terminal chunk
ExpectedChunks ==
    [k \in 1..NumContent |->
        [delta |-> ContentFrames(sframes)[k].delta, done |-> FALSE,
         err |-> NilErr]]
    \o <<[delta |-> <<>>, done |-> TRUE, err |-> NilErr]>>

IsPrefix(a, b) == Len(a) <= Len(b) /\ a = SubSeq(b, 1, Len(a))

\* the call opened a stream that ends with end-of-stream, the token is not
\* signaled and the consumer has not given up
StreamsToTheEnd == sret.chan /\ stail = "eof" /\ sctx = NilErr /\ ~stopped

\* C13: for a stream of M content frames that ends with end-of-stream, with
\* no cancellation and a consumer that keeps receiving, what the consumer
\* has received is always a prefix of the M content chunks (the frames'
\* deltas, in order) followed by one chunk with Done, no delta and no
\* error; the channel is closed only after all of them were received; and
\* the channel is eventually closed.
C13_StreamSuccess ==
    /\ [](StreamsToTheEnd =>
            /\ IsPrefix(recvd, ExpectedChunks)
            /\ nclose = 1 => recvd = ExpectedChunks)
    /\ (spc = "returned" /\ StreamsToTheEnd)
          ~> (nclose = 1 \/ ~StreamsToTheEnd)

\* C13 witness: a stream of three content frames was received whole, and
\* the channel is closed.
C13_Witness ==
    /\ StreamsToTheEnd
    /\ NumContent = 3
    /\ nclose = 1
    /\ Len(recvd) = 4
    /\ recvd[4].done

\* C13 witness for M = 0: only the terminal chunk was received.
C13_WitnessEmpty ==
    /\ StreamsToTheEnd
    /\ NumContent = 0
    /\ nclose = 1
    /\ Len(recvd) = 1

\* the chunk carries an error
IsErrorChunk(c) == c.err # NilErr

\* C14: when stream.Recv() fails with an error that is not end-of-stream,
\* the goroutine sends one chunk with Done and the wrapped error: no chunk
\* is received after it, no further Recv and no second open are made, and
\* unless the consumer gave up the channel is eventually closed.
C14_StreamReadError ==
    /\ [](/\ \A k \in DOMAIN recvd :
               IsErrorChunk(recvd[k]) =>
                   /\ k = Len(recvd)
                   /\ recvd[k].done
                   /\ recvd[k].delta = <<>>
                   /\ recvd[k].err.msg[1] = "stream error"
                   /\ dpc \notin {"recv", "sendChunk", "sendDone", "sendErr"}
          /\ dpc = "sendErr" => IsErrorChunk(pending) /\ pending.done)
    /\ [][dpc = "sendErr" =>
            /\ dpc' \in {"sendErr", "exit"}
            /\ sread' = sread
            /\ nopen' = nopen
            /\ dpc' = "exit" => recvd' = Append(recvd, pending)]_vars
    /\ [][sexit = "error" =>
            recvd' = recvd /\ sread' = sread /\ nopen' = nopen]_vars
    /\ (dpc = "sendErr") ~> (nclose = 1 \/ stopped)

\* C14 witness: the stream broke after two content chunks; the consumer got
\* them and the error chunk, and the channel is closed.
C14_Witness ==
    /\ stail = "err"
    /\ sctx = NilErr
    /\ sexit = "error"
    /\ nclose = 1
    /\ Len(recvd) = 3
    /\ IsErrorChunk(recvd[3])
    /\ nopen = 1

\* StreamChatCompletion returned an error
OpenFailed == spc = "returned" /\ sret.err # NilErr

\* C15: when the stream cannot be opened, StreamChatCompletion has called
\* CreateChatCompletionStream once, returns no channel and the error wrapped
\* as "stream creation failed: ...", has started no goroutine and has
\* released the timeout scope by calling cancel() once.
C15_StreamOpenFailure ==
    /\ nopen <= 1
    /\ OpenFailed =>
          /\ nopen = 1
          /\ ~sret.chan
          /\ sret.err.msg[1] = "stream creation failed"
          /\ sret.err.cause \in {e.msg : e \in OpenOutcomes \ {NilErr}}
          /\ sret.err.msg = <<"stream creation failed">> \o sret.err.cause
          /\ dpc = "none"
          /\ recvd = <<>>
          /\ nrelease = 0 /\ nclose = 0
          /\ ncancel = 1

\* C15 witness: the connection was refused.
C15_Witness ==
    /\ OpenFailed
    /\ sret.err.cause = <<"connection refused">>
    /\ ncancel = 1
    /\ nopen = 1

\* C16: when the token was signaled after the consumer had received K of
\* the M content chunks, K < M, the consumer receives fewer than M chunks in
\* all.  (The responses Recv still returns after the signal are those the
\* connection had delivered before it.)
C16_CancelledStreamIsShort ==
    (sret.chan /\ sctx # NilErr /\ scancelAt < NumContent)
        => Len(recvd) < NumContent

\* C17: for a stream that was opened, stream.Close() and close(chunkChan)
\* are each called at most once, and exactly once when the goroutine has
\* returned, through end-of-stream, a read error or the token alike; the
\* channel is closed only after the connection was released; nothing is
\* received, released or closed after the close; and nothing of this happens
\* for a stream that was not opened.
C17_ReleaseAndCloseOnce ==
    /\ [](/\ nrelease <= 1 /\ nclose <= 1
          /\ nclose = 1 => nrelease = 1
          /\ dpc = "closed" <=> nclose = 1
          /\ dpc \in {"unscope", "closing", "closed"} => nrelease = 1
          /\ dpc \in {"exit", "unscope", "closing", "closed"}
                => sexit \in {"eof", "error", "cancel"}
          /\ ~sret.chan => nrelease = 0 /\ nclose = 0)
    /\ [][nclose = 1 =>
            recvd' = recvd /\ nclose' = nclose /\ nrelease' = nrelease]_vars

\* C17 witness: the goroutine returned through ctx.Done() after one chunk;
\* the connection is released and the channel closed, once each.
C17_Witness ==
    /\ sexit = "cancel"
    /\ Len(recvd) = 1
    /\ nrelease = 1
    /\ nclose = 1

\* C18: once the token of an opened stream is signaled, the goroutine
\* eventually releases the connection and closes the channel, whichever send
\* it is at and even if the consumer receives no more.
C18_CancelEndsStream ==
    (sret.chan /\ sctx # NilErr) ~> (nrelease = 1 /\ nclose = 1)

(***************************************************************************)
(* The claims about MessageChunkAction.Execute.                            *)
(***************************************************************************)
\* the messages of the state the run has reached
ChunkMessages == Deref(heap, mstate.msgs)

\* the messages of the state before the run that the chunks match
MatchesAtStart ==
    {j \in DOMAIN cinit : cinit[j].role = ckey.role /\ cinit[j].ts = ckey.ts}

\* d1 + d2 + ... + dn
RECURSIVE Concat(_)
Concat(ds) == IF ds = <<>> THEN <<>> ELSE Head(ds) \o Concat(Tail(ds))

\* C19: n chunks of one role and timestamp, applied to a state that holds
\* no message of that role and timestamp, give the messages of that state,
\* unchanged, followed by one message of that role and timestamp whose
\* content is d1 + ... + dn.
C19_ChunksAccumulate ==
    (MatchesAtStart = {} /\ clog # <<>>)
        => ChunkMessages = cinit \o <<Message(ckey.role, Concat(clog), ckey.ts)>>

\* C19 witness: three chunks after two other messages.
C19_Witness ==
    /\ MatchesAtStart = {}
    /\ Len(cinit) = 2
    /\ Len(clog) = 3
    /\ Len(ChunkMessages) = 3
    /\ ChunkMessages[3].content = <<1, 2, 3>>

Max(S) == CHOOSE x \in S : \A y \in S : x >= y

\* what C20 says one chunk makes of the state before the run
LastMatchReplaced ==
    IF MatchesAtStart = {}
    THEN cinit \o <<Message(ckey.role, clog[1], ckey.ts)>>
    ELSE [cinit EXCEPT ![Max(MatchesAtStart)].content = @ \o clog[1]]

\* C20: a chunk replaces the last message of its role and timestamp by that
\* message with the delta added to its content, and leaves every other
\* message as it was; when no message matches, it is appended.
C20_ReplacesLastMatch ==
    Len(clog) = 1 => ChunkMessages = LastMatchReplaced

(***************************************************************************)
(* What one Dispatch does to the messages.                                 *)
(***************************************************************************)
\* the step is the call of Execute inside Dispatch, by task t
Executes(t) == task[t].pc = "idle" /\ task'[t].pc = "executed"

\* the messages before Execute, and those of the state it returned
MessagesBefore == Deref(heap, mstate.msgs)
MessagesAfter(t) == Deref(heap', task'[t].new.msgs)

\* the step is the store of the new state at the end of Dispatch, by task t
Commits(t) == task[t].pc = "executed" /\ task'[t].pc = "idle"

\* C21: a Dispatch of any action but ClearMessages leaves the list at least
\* as long, with every message it held at the same position, unchanged but
\* for the content of a message that a MessageChunk matches.
C21_MessagesAppendOnly ==
    [][\A t \in Tasks :
          (Executes(t) /\ task'[t].action.type # "Clear") =>
              /\ Len(MessagesAfter(t)) >= Len(MessagesBefore)
              /\ \A j \in DOMAIN MessagesBefore :
                    \/ MessagesAfter(t)[j] = MessagesBefore[j]
                    \/ /\ task'[t].action.type = "Chunk"
                       /\ MessagesAfter(t)[j].role = MessagesBefore[j].role
                       /\ MessagesAfter(t)[j].ts = MessagesBefore[j].ts
                       /\ MessagesBefore[j].role = task'[t].action.role
                       /\ MessagesBefore[j].ts = task'[t].action.ts]_vars

\* C22: Execute of ChatCompletionStarted{r, c} gives a state with Busy set
\* whose messages are those before, unchanged, followed by one message of
\* role r and content c; Dispatch stores that state.
C22_StartTurnEffect ==
    [][\A t \in Tasks :
          /\ (Executes(t) /\ task'[t].action.type = "Started") =>
                /\ task'[t].new.busy
                /\ Len(MessagesAfter(t)) = Len(MessagesBefore) + 1
                /\ SubSeq(MessagesAfter(t), 1, Len(MessagesBefore)) = MessagesBefore
                /\ MessagesAfter(t)[Len(MessagesAfter(t))].role = task'[t].action.role
                /\ MessagesAfter(t)[Len(MessagesAfter(t))].content
                      = task'[t].action.content
          /\ (Commits(t) /\ task[t].action.type = "Started") =>
                /\ mstate'.busy
                /\ mstate'.msgs = task[t].new.msgs
                /\ Deref(heap', mstate'.msgs) = Deref(heap, task[t].new.msgs)
                /\ Deref(heap', mstate'.msgs)
                      = Deref(heap, mstate.msgs)
                        \o <<Message(task[t].action.role, task[t].action.content,
                                     task[t].at)>>]_vars

\* C22 witness: a user message was dispatched first, on a state of two
\* messages whose array was full, and is the third and last message.
C22_Witness ==
    /\ Len(applied) = 1
    /\ applied[1].action = StartedAction(RoleUser, <<1>>)
    /\ Len(cinit) = 2
    /\ mstate.busy
    /\ Len(Deref(heap, mstate.msgs)) = 3
    /\ Deref(heap, mstate.msgs)[3].role = RoleUser
    /\ Deref(heap, mstate.msgs)[3].content = <<1>>
    /\ Len(heap) = 2

(***************************************************************************)
(* The orchestrator's claims.                                              *)
(***************************************************************************)
\* the ChatCompletionCompleted actions dispatched for turn t, by position
Completions(t) == {k \in DOMAIN alog[t] : alog[t][k].type = "Completed"}

\* turn t was started: its ChatCompletionStarted was dispatched
TurnStarted(t) == alog[t] # <<>>

\* the consumer of turn t has not returned
Streaming(t) == aturn[t].pc \in {"range", "status"}

\* C23: the actions of a turn are one ChatCompletionStarted, then its
\* MessageChunks, then at most one ChatCompletionCompleted, which is the last
\* one; and every started turn eventually has its ChatCompletionCompleted.
C23_TurnCompletesOnce ==
    /\ [](\A t \in Turns :
            /\ Cardinality(Completions(t)) <= 1
            /\ \A k \in Completions(t) : k = Len(alog[t])
            /\ \A k \in DOMAIN alog[t] :
                  alog[t][k].type = "Started" <=> k = 1)
    /\ \A t \in Turns : TurnStarted(t) ~> (Completions(t) # {})

\* C23 witness: the first turn ended normally, the second one failed to
\* open; each has one completion.
C23_Witness ==
    /\ aturn[1].pc = "done"
    /\ alog[1][Len(alog[1])].success
    /\ Len(alog[1]) = 4
    /\ aturn[2].opened = "failed"
    /\ Cardinality(Completions(2)) = 1

\* C24: when StreamChatCompletion returned an error, the actions dispatched
\* for the turn are its ChatCompletionStarted and one ChatCompletionCompleted
\* with Success = false and that error, after which Busy is false; no
\* consumer is started and no chunk is taken.
C24_OpenFailureCompletes ==
    \A t \in Turns :
        aturn[t].opened = "failed" =>
            /\ Len(alog[t]) = 2
            /\ alog[t][1].type = "Started"
            /\ alog[t][2].type = "Completed"
            /\ ~alog[t][2].success
            /\ alog[t][2].err = aturn[t].operr
            /\ alog[t][2].err \in OpenErrors
            /\ ~alog[t][2].busy
            /\ aturn[t].pc = "none"
            /\ aturn[t].taken = 0

\* C24 witness: the second turn could not open its stream while the first
\* one was streaming.
C24_Witness ==
    /\ aturn[2].opened = "failed"
    /\ Len(alog[2]) = 2
    /\ Streaming(1)
    /\ alog[2][2].err.cause = <<"connection refused">>

\* turn t has a ChatCompletionCompleted with Success = false and the token's
\* error
CancelledCompletion(t) ==
    \E k \in Completions(t) :
        /\ ~alog[t][k].success
        /\ alog[t][k].err = actx
        /\ alog[t][k].err \in {CtxCanceled, CtxDeadline}

\* C25 (as claimed): once the token is signaled while a turn is streaming,
\* the turn gets a ChatCompletionCompleted with Success = false and the
\* cancellation error.
C25_Original ==
    \A t \in Turns :
        (actx # NilErr /\ Streaming(t)) ~> CancelledCompletion(t)

\* C25 (amended): once the token is signaled while the consumer of a turn
\* still has a chunk to receive, the turn gets a ChatCompletionCompleted with
\* Success = false and the cancellation error: the consumer dispatches it
\* when it receives its next chunk, whatever that chunk is, and from then on
\* it receives nothing and dispatches nothing.
C25_CancelMidStream ==
    /\ \A t \in Turns :
          (actx # NilErr /\ Streaming(t) /\ aturn[t].stream # <<>>)
              ~> CancelledCompletion(t)
    /\ [][\A t \in Turns :
            /\ (actx # NilErr /\ aturn'[t].taken # aturn[t].taken) =>
                  /\ aturn'[t].pc = "done"
                  /\ alog'[t] = Append(alog[t],
                                       Entry(CompletedAction(FALSE), actx, FALSE))
            /\ aturn[t].pc = "done" =>
                  aturn'[t] = aturn[t] /\ alog'[t] = alog[t]]_vars

\* C25 witness: the token was signaled after the first chunk of a turn was
\* dispatched; the turn was completed with the cancellation error and a
\* chunk is left in the channel.
C25_Witness ==
    /\ actx = CtxCanceled
    /\ aturn[1].pc = "done"
    /\ CancelledCompletion(1)
    /\ Len(alog[1]) = 3
    /\ alog[1][2].type = "Chunk"
    /\ aturn[1].stream # <<>>

\* C26: a ChatCompletionCompleted with Success = true is dispatched by the
\* consumer that found its channel closed, after every other action of the
\* turn, it carries no error and Busy is false in the state it gives; and a
\* consumer whose channel is closed with nothing left dispatches it.
C26_NormalEndCompletes ==
    /\ [](\A t \in Turns : \A k \in Completions(t) :
            alog[t][k].success =>
                /\ k = Len(alog[t])
                /\ aturn[t].pc = "done"
                /\ aturn[t].stream = <<>>
                /\ alog[t][k].err = NilErr
                /\ ~alog[t][k].busy)
    /\ \A t \in Turns :
          (aturn[t].pc = "range" /\ aturn[t].stream = <<>>)
              ~> (\E k \in Completions(t) : alog[t][k].success)

\* C26 witness: a stream of one content chunk and the Done chunk was
\* consumed with the token unsignaled; the turn's last action is the
\* successful completion.
C26_Witness ==
    /\ actx = NilErr
    /\ aturn[1].pc = "done"
    /\ aturn[1].taken = 2
    /\ Len(alog[1]) = 4
    /\ alog[1][4].type = "Completed"
    /\ alog[1][4].success
    /\ ~mstate.busy

\* C27: a.output is closed at most once, and nothing is sent on it once it
\* is closed.
C27_NoUseAfterClose ==
    /\ aout.closes <= 1
    /\ acrash # "send on closed channel"

(***************************************************************************)
(* The claims about the two constructions.                                 *)
(***************************************************************************)
\* the messages of the wire request
WireMessages == qwire[1].messages

\* the messages of the ChatRequest as the wire carries them: role and
\* content of each, in the order of the request
Carried == [i \in 1..Len(qreq.messages) |->
               [role |-> qreq.messages[i].role,
                content |-> qreq.messages[i].content, name |-> ""]]

\* the request has a prompt and does not start with a system message
WantsSystemMessage ==
    /\ qreq.systemPrompt # <<>>
    /\ \/ qreq.messages = <<>>
       \/ qreq.messages[1].role # RoleSystem

\* C28: the wire request's messages are the ChatRequest's messages in the
\* same order, after one system message holding SystemPrompt exactly when
\* SystemPrompt is not empty and the first message is not a system message
\* (an empty list has no first system message); else they are the
\* ChatRequest's messages alone.
C28_SystemPromptPrepended ==
    qwire # <<>> =>
        IF WantsSystemMessage
        THEN /\ Len(WireMessages) = Len(qreq.messages) + 1
             /\ WireMessages[1].role = RoleSystem
             /\ WireMessages[1].content = qreq.systemPrompt
             /\ Tail(WireMessages) = Carried
        ELSE WireMessages = Carried

\* C28 witness: a request with a prompt whose two messages are a user and an
\* assistant message was converted: three wire messages.
C28_Witness ==
    /\ qwire # <<>>
    /\ qreq.systemPrompt # <<>>
    /\ Len(qreq.messages) = 2
    /\ qreq.messages[1].role = RoleUser
    /\ Len(WireMessages) = 3

\* C28 witness of the other case: a prompt, and a first message that is a
\* system message already: nothing was prepended.
C28_WitnessAlreadySystem ==
    /\ qwire # <<>>
    /\ qreq.systemPrompt # <<>>
    /\ Len(qreq.messages) = 2
    /\ qreq.messages[1].role = RoleSystem
    /\ Len(WireMessages) = 2

\* C30: the store NewMemoryState returns has mode plan, no messages, Busy
\* false, Created = Updated = the time of the call, the given system prompt
\* or the default one for "", and the given session name or a generated one,
\* not empty, for "".
C30_InitialState ==
    nstore # <<>> =>
        LET s == nstore[1].state
        IN /\ s.mode = PlanMode
           /\ Deref(<<>>, s.msgs) = <<>>
           /\ ~s.busy
           /\ s.created = s.updated
           /\ s.created = nargs.now
           /\ s.systemPrompt = IF nargs.systemPrompt = <<>>
                               THEN DefaultSystemPrompt
                               ELSE nargs.systemPrompt
           /\ s.systemPrompt # <<>>
           /\ IF nargs.sessionName = <<>>
              THEN s.sessionID # <<>>
              ELSE s.sessionID = nargs.sessionName
           /\ View(<<>>, s) = View(<<>>, InitState)

\* C30 witness: a store built with "" for the prompt and for the session
\* name at time 2.
C30_Witness ==
    /\ nstore # <<>>
    /\ nargs.systemPrompt = <<>>
    /\ nargs.sessionName = <<>>
    /\ nargs.now = 2
    /\ nstore[1].state.sessionID = SessionFormat(2)
    /\ nstore[1].state.systemPrompt = DefaultSystemPrompt

(***************************************************************************)
(* The default of the retry executor's maximum.                            *)
(***************************************************************************)
\* C29: with p.config.MaxRetries <= 0 retryRequest runs with maxRetries = 3,
\* the value it runs with when 3 is configured; when every attempt fails
\* with a retryable error and the token is not signaled, it makes three
\* attempts and returns the error that names 3 retries and wraps the last
\* attempt's error.
C29_DefaultMaxRetries ==
    (rcfg <= 0 /\ rpc # "start") =>
        /\ rmax = 3
        /\ rmax = EffectiveMaxRetries(3)
        /\ Len(rlog) <= 3
        /\ (/\ RetryDone
            /\ rctx = NilErr
            /\ \A k \in DOMAIN rlog : RetryableFailure(rlog[k]))
           => /\ Len(rlog) = 3
              /\ rret = Exhausted(3, rlog[3])

\* C29 witness: MaxRetries is -1, three attempts failed with retryable
\* errors, and the error returned names 3 retries.
C29_Witness ==
    /\ rcfg = -1
    /\ RetryDone
    /\ rctx = NilErr
    /\ Len(rlog) = 3
    /\ \A k \in DOMAIN rlog : RetryableFailure(rlog[k])
    /\ rret.retries = 3

(***************************************************************************)
(* The orchestrator and the store together.                                 *)
(***************************************************************************)
\* the messages of the store
StoreMessages == Deref(heap, mstate.msgs)

\* turn t ran alone and ended with ChatCompletionCompleted{Success: true}
\* after n content chunks and the Done chunk
RanAloneToTheEnd(t, n) ==
    /\ ain = 1
    /\ t = 1
    /\ aterm = 0
    /\ aturn[t].pc = "done"
    /\ alog[t][Len(alog[t])].success
    /\ Len(aturn[t].builder) = n
    /\ aturn[t].taken = n + 1

\* C31: after a turn that ran alone and whose stream gave n >= 1 content
\* deltas and the Done chunk, the store holds the user message and one
\* assistant message, whose content is d1 + ... + dn.
C31_TurnAccumulates ==
    \A n \in 1..MaxDeltas :
        RanAloneToTheEnd(1, n) =>
            /\ Len(StoreMessages) = 2
            /\ StoreMessages[1].role = RoleUser
            /\ StoreMessages[2].role = RoleAssistant
            /\ StoreMessages[2].content = Concat([j \in 1..n |-> DeltaAt(1, j)])

\* C32: a step that is not the client's own (no GetState, no write through
\* the snapshot) leaves what the client reads in the state it got from
\* GetState as it was: no Dispatch changes it.
C32_SnapshotStable ==
    [][(nmut' = nmut /\ snap' = snap) => View(heap', snap) = View(heap, snap)]_vars

\* turn t is in flight: its ChatCompletionStarted was dispatched, its
\* ChatCompletionCompleted was not
InFlight(t) == TurnStarted(t) /\ Completions(t) = {}

\* C33: while a turn is in flight, Model.Busy is true.
C33_BusyWhileInFlight ==
    (\E t \in Turns : InFlight(t)) => mstate.busy

\* C34: once the orchestrator's token is signaled while the stream of the
\* turn is open, the decode goroutine eventually releases the connection and
\* closes the channel.
C34_CancelReachesStream ==
    (sret.chan /\ nclose = 0 /\ actx # NilErr) ~> (nrelease = 1 /\ nclose = 1)

(***************************************************************************)
(* Handlers that do not end, handlers that call the store.                  *)
(***************************************************************************)
\* a handler goroutine was started and has not returned
HandlerRunning == \E i \in DOMAIN gor : ~gor[i].done

\* C35: the lock is held only by a caller inside Dispatch, never by or for
\* a handler; a Dispatch that has executed its action returns, and the lock
\* becomes free, whether the handlers started so far end or not; so with the
\* lock free a running handler can call GetState, and Dispatch when calls
\* are left.
C35_NeverWaitsForHandler ==
    /\ [](mu # NoTask => task[mu].pc = "executed")
    /\ \A t \in Tasks : (task[t].pc = "executed") ~> (task[t].pc = "idle")
    /\ []<>(mu = NoTask)
    /\ []((HandlerRunning /\ mu = NoTask /\ ndisp < MaxDispatch) =>
            ENABLED (\E i \in 1..(MaxDispatch * Len(Handlers)) :
                       \E a \in HandlerInputs(ndisp + 1) : HandlerDispatch(i, a)))
    /\ []((HandlerRunning /\ mu = NoTask /\ snap # mstate) =>
            ENABLED (\E i \in 1..(MaxDispatch * Len(Handlers)) :
                       HandlerGetState(i)))

\* C35 witness: a handler of the first Dispatch, which has not returned,
\* has called GetState and is inside its own Dispatch, holding the lock.
C35_Witness ==
    /\ Len(applied) = 1
    /\ gor # <<>>
    /\ \A i \in DOMAIN gor : ~gor[i].done
    /\ snap = mstate
    /\ snap # InitState
    /\ task["t2"].pc = "executed"
    /\ mu = "t2"

\* C36: every ChatCompletionCompleted dispatched with Success = false
\* carries an error.
C36_FailureCarriesCause ==
    \A t \in Turns : \A k \in Completions(t) :
        ~alog[t][k].success => alog[t][k].err # NilErr

(***************************************************************************)
(* The token and the classification of errors in the retry executor.       *)
(***************************************************************************)
\* C37: an attempt that fails with a marked error while the token is
\* signaled makes retryRequest return the token's error, not the attempt's;
\* and retryRequest goes from its entry to an attempt whatever the token
\* is, so it has called fn at least once when it returns.
C37_CancelBeforeClassification ==
    /\ [][(/\ rpc = "attempt"
           /\ rctx # NilErr
           /\ Len(rlog') = Len(rlog) + 1
           /\ HasMarker(rlog'[Len(rlog')]))
          => /\ rpc' = "done"
             /\ rret' = rctx
             /\ rret' # rlog'[Len(rlog')]]_vars
    /\ [][rpc = "start" => rpc' = "attempt"]_vars
    /\ [](rpc = "done" => Len(rlog) >= 1)

\* C37 witness: the one attempt failed with invalid_api_key under a signaled
\* token, and the call returned context.Canceled.
C37_Witness ==
    /\ rpc = "done"
    /\ rlog = <<ErrApiKey>>
    /\ rctx = CtxCanceled
    /\ rret = CtxCanceled

\* C38: when messageHandler calls GetState to build the ChatRequest of a
\* turn, the messages of the store end with the turn's user message.
C38_RequestEndsWithUserMessage ==
    [][(apc = "open" /\ apc' = "wait") =>
          /\ StoreMessages # <<>>
          /\ StoreMessages[Len(StoreMessages)].role = RoleUser
          /\ StoreMessages[Len(StoreMessages)].content = InputMessage(ain).content]_vars

(***************************************************************************)
(* What GetProvider returns.                                                *)
(***************************************************************************)
\* C39: GetProvider returns a provider and no error, having dispatched
\* ChangeProviderSettings with the provider's id and model, or it returns an
\* error, having dispatched nothing.
C39_ProviderOrError ==
    gret # <<>> =>
        \/ /\ gret[1].pr.kind = "provider"
           /\ gret[1].err = NilErr
           /\ gret[1].dispatched
           /\ mstate.provider = gret[1].pr.name
           /\ mstate.name = gret[1].pr.model
        \/ /\ gret[1].err # NilErr
           /\ ~gret[1].dispatched

====
